---------------------------- MODULE Spec2Model ----------------------------
(***************************************************************************)
(* screenshot-cli: the image comparison engine (ImageComparator), the      *)
(* before/after result merge (mergeBeforeAfterResultsWithComparison) and   *)
(* the record store (DataPersistence), as state machines.                  *)
(*                                                                         *)
(* Numbers.  A JavaScript number that holds a percentage is modelled as an *)
(* exact rational [n, d] (n/d, d > 0); IEEE rounding error is not          *)
(* modelled.  Optional values (undefined | v) are sequences of length at   *)
(* most one, except paths, where the empty path stands for undefined.      *)
(***************************************************************************)
EXTENDS Integers, Sequences, FiniteSets, TLC

VARIABLES
  pc,           \* position of the running command
  clsIn,        \* ChangeClassifier: the two percentages handed to determineChangeLevel
  clsOut,       \* ChangeClassifier: the two levels returned
  cmpIn,        \* compareImages: the call's arguments and what the reads and pixelmatch give
  cmpOut,       \* compareImages: <<>> before the call, then <<[threw, result]>>
  batchOut,     \* batchCompare: <<>> before the call, then <<the verdicts>>
  mergeIn,      \* merge: the before and after outcomes, the options, what the reads give
  mergeOut,     \* merge: <<>> before the call, then <<the merged results>>
  compareCalls, \* merge: the calls of compareImages made, in order
  storeIn,      \* record store: the arguments of saveDataFile
  recordFile,   \* record store: the file at dataFilePath, <<>> while it does not exist
  loaded,       \* record store: <<>>, then <<what loadDataFile returned or threw>>
  resolved,     \* record store: <<>>, then <<what resolveImagePaths returned>>
  diffFiles,    \* the diff images on disk
  shotIn,       \* takeScreenshot: the url, the options and the mode
  attempt,      \* takeScreenshot: the counter of the retry loop
  lastError,    \* takeScreenshot: the message of the last error caught in the loop
  attempts,     \* takeScreenshot: how each call of page.goto so far ended
  shotOut,      \* takeScreenshots: <<>>, then <<the result pushed for the url>>
  pass,         \* compare command: the state of each running invocation
  loop,         \* a loop of awaited comparisons: its position and the calls in progress
  browser       \* Screenshotter: this.browser and the pages it has opened

vars == <<pc, clsIn, clsOut, cmpIn, cmpOut, batchOut, mergeIn, mergeOut, compareCalls, storeIn, recordFile, loaded, resolved, diffFiles, shotIn, attempt, lastError, attempts, shotOut, pass, loop, browser>>

clsVars == <<clsIn, clsOut>>

cmpVars == <<cmpIn, cmpOut, batchOut>>

mergeVars == <<mergeIn, mergeOut, compareCalls>>

IdleClassify == clsIn = <<>> /\ clsOut = <<>>

IdleCompare == cmpIn = <<>> /\ cmpOut = <<>> /\ batchOut = <<>>

IdleMerge == mergeIn = <<>> /\ mergeOut = <<>> /\ compareCalls = <<>>

storeVars == <<storeIn, recordFile, loaded, resolved>>

IdleStore == storeIn = <<>> /\ recordFile = <<>> /\ loaded = <<>> /\ resolved = <<>>

shotVars == <<shotIn, attempt, lastError, attempts, shotOut>>

IdleShot ==
  shotIn = <<>> /\ attempt = 0 /\ lastError = "" /\ attempts = <<>> /\ shotOut = <<>>

runVars == <<pass, loop, browser>>

IdleRun == pass = <<>> /\ loop = <<>> /\ browser = <<>>

---------------------------------------------------------------------------
(* Rationals *)

Num(a, b) == [n |-> a, d |-> b]

Lt(x, y) == x.n * y.d < y.n * x.d

Ge(x, y) == ~Lt(x, y)

MaxNum(x, y) == IF Lt(x, y) THEN y ELSE x

EqNum(x, y) == x.n * y.d = y.n * x.d

\* Math.round(x * 100) / 100; Math.round rounds half up
Round2(x) == Num((2 * x.n * 100 + x.d) \div (2 * x.d), 100)

---------------------------------------------------------------------------
(* ChangeLevel and ImageComparator.determineChangeLevel *)

ChangeLevel == {"none", "minimal", "minor", "moderate", "major", "extreme"}

determineChangeLevel_Closed(diffPercentage) ==
  IF ~Lt(Num(1, 10), diffPercentage) THEN "none"
  ELSE IF ~Lt(Num(1, 1), diffPercentage) THEN "minimal"
  ELSE IF ~Lt(Num(5, 1), diffPercentage) THEN "minor"
  ELSE IF ~Lt(Num(15, 1), diffPercentage) THEN "moderate"
  ELSE IF ~Lt(Num(50, 1), diffPercentage) THEN "major"
  ELSE "extreme"

determineChangeLevel(diffPercentage) ==
  IF Lt(diffPercentage, Num(1, 10)) THEN "none"
  ELSE IF Lt(diffPercentage, Num(1, 1)) THEN "minimal"
  ELSE IF Lt(diffPercentage, Num(5, 1)) THEN "minor"
  ELSE IF Lt(diffPercentage, Num(15, 1)) THEN "moderate"
  ELSE IF Lt(diffPercentage, Num(50, 1)) THEN "major"
  ELSE "extreme"


---------------------------------------------------------------------------
(* Paths: a path is a sequence of segments, a segment a sequence of tokens *)
(* (so that a suffix can be appended to a file name); <<>> is undefined.   *)

NoPath == <<>>

dirname(p) == SubSeq(p, 1, Len(p) - 1)

\* path.basename(p, ext): the last segment, without ext when it ends with it
basename(p, ext) ==
  LET f == p[Len(p)]
  IN IF Len(f) > 1 /\ f[Len(f)] = ext THEN SubSeq(f, 1, Len(f) - 1) ELSE f

join(dir, name) == Append(dir, name)

generateDiffImagePath_Same(beforePath) == beforePath

generateDiffImagePath(beforePath) ==
  join(dirname(beforePath), basename(beforePath, ".png") \o <<"_diff", ".png">>)

---------------------------------------------------------------------------
(* Screenshotter: where takeScreenshot puts the image of a URL.  An        *)
(* absolute path starts with the root segment <<"/">>.                     *)

Urls == {"https://example.com", "https://staging.example.com/wp-admin"}

\* the URLs of one more capture: the first of Urls with the other scheme
ShotUrls == Urls \cup {"http://example.com"}

\* the characters of a URL of the model
Characters(url) ==
  CASE url = "https://example.com" ->
         <<"h", "t", "t", "p", "s", ":", "/", "/", "e", "x", "a", "m",
           "p", "l", "e", ".", "c", "o", "m">>
    [] url = "https://staging.example.com/wp-admin" ->
         <<"h", "t", "t", "p", "s", ":", "/", "/", "s", "t", "a", "g",
           "i", "n", "g", ".", "e", "x", "a", "m", "p", "l", "e", ".",
           "c", "o", "m", "/", "w", "p", "-", "a", "d", "m", "i", "n">>
    [] url = "http://example.com" ->
         <<"h", "t", "t", "p", ":", "/", "/", "e", "x", "a", "m", "p",
           "l", "e", ".", "c", "o", "m">>

\* the string of a sequence of characters
RECURSIVE Text(_)
Text(chars) == IF chars = <<>> THEN "" ELSE chars[1] \o Text(Tail(chars))

\* the characters the second replacement keeps: [a-zA-Z0-9.-]
KeptCharacters ==
  {"a", "b", "c", "d", "e", "f", "g", "h", "i", "j", "k", "l", "m", "n",
   "o", "p", "q", "r", "s", "t", "u", "v", "w", "x", "y", "z", "A", "B",
   "C", "D", "E", "F", "G", "H", "I", "J", "K", "L", "M", "N", "O", "P",
   "Q", "R", "S", "T", "U", "V", "W", "X", "Y", "Z", "0", "1", "2", "3",
   "4", "5", "6", "7", "8", "9", ".", "-"}

StartsWith(chars, prefix) ==
  Len(chars) >= Len(prefix) /\ SubSeq(chars, 1, Len(prefix)) = prefix

\* .replace(/^https?:\/\//, '')
replaceScheme(chars) ==
  LET http == <<"h", "t", "t", "p", ":", "/", "/">>
      https == <<"h", "t", "t", "p", "s", ":", "/", "/">>
  IN IF StartsWith(chars, https) THEN SubSeq(chars, Len(https) + 1, Len(chars))
     ELSE IF StartsWith(chars, http) THEN SubSeq(chars, Len(http) + 1, Len(chars))
     ELSE chars

\* .replace(/[^a-zA-Z0-9.-]/g, '_')
replaceOthers(chars) ==
  [i \in 1..Len(chars) |-> IF chars[i] \in KeptCharacters THEN chars[i] ELSE "_"]

\* .replace(/_+/g, '_'): of every run of underscores the first stays
RECURSIVE replaceRuns(_)
replaceRuns(chars) ==
  IF Len(chars) < 2 THEN chars
  ELSE IF chars[1] = "_" /\ chars[2] = "_" THEN replaceRuns(Tail(chars))
  ELSE <<chars[1]>> \o replaceRuns(Tail(chars))

\* .replace(/^_|_$/g, ''): an underscore at the start and one at the end go
replaceEnds(chars) ==
  LET tail == IF chars # <<>> /\ chars[1] = "_" THEN Tail(chars) ELSE chars
  IN IF tail # <<>> /\ tail[Len(tail)] = "_" THEN SubSeq(tail, 1, Len(tail) - 1) ELSE tail

\* .substring(0, 100)
MaxFilename == 100

substring(chars, start, end) ==
  SubSeq(chars, start + 1, IF end < Len(chars) THEN end ELSE Len(chars))

\* sanitizeFilename(url): the four replacements and the cut, in this order
sanitizeFilename(url) ==
  Text(substring(replaceEnds(replaceRuns(replaceOthers(replaceScheme(Characters(url))))),
                 0, MaxFilename))

\* resolve(options.output)
OutputDir == <<<<"/">>, <<"out">>>>

\* the file name is `${filename}.png` in mode single, else `${filename}_${mode}.png`
ScreenshotPath(output, url, mode) ==
  LET screenshotsDir == join(output, <<"screenshots">>)
      filename == sanitizeFilename(url)
  IN IF mode = "single"
     THEN join(screenshotsDir, <<filename, ".png">>)
     ELSE join(screenshotsDir,
               <<filename, IF mode = "before" THEN "_before" ELSE "_after", ".png">>)

---------------------------------------------------------------------------
(* ImageComparator.compareImages *)

defaultOptions ==
  [threshold |-> Num(1, 10),
   generateDiffImage |-> TRUE,
   ignoreAntialiasing |-> FALSE,
   minChangeThreshold |-> Num(1, 10)]

\* { ...this.defaultOptions, ...options }
MergeOptions(options) ==
  [k \in DOMAIN defaultOptions |->
     IF k \in DOMAIN options THEN options[k] ELSE defaultOptions[k]]

Abs(i) == IF i < 0 THEN -i ELSE i

shouldGenerateDiffImage_Always(opts, hasSignificantChange, changeLevel) ==
  opts.generateDiffImage

\* diffImg is non-null exactly when opts.generateDiffImage
shouldGenerateDiffImage(opts, hasSignificantChange, changeLevel) ==
  /\ opts.generateDiffImage
  /\ (hasSignificantChange \/ changeLevel = "major" \/ changeLevel = "moderate")

\* the branch for images whose width or height differ
compareDimensions_NoFloor(beforeImg, afterImg) ==
  LET beforePixels == beforeImg.width * beforeImg.height
      afterPixels == afterImg.width * afterImg.height
      pixelDifference == Abs(afterPixels - beforePixels)
      diffPercentage == Num(pixelDifference * 100, beforePixels)
  IN [diffPixels |-> pixelDifference,
      totalPixels |-> beforePixels,
      diffPercentage |-> Round2(diffPercentage),
      changeLevel |-> determineChangeLevel(diffPercentage),
      diffImagePath |-> NoPath,
      hasSignificantChange |-> TRUE]

compareDimensions(beforeImg, afterImg) ==
  LET beforePixels == beforeImg.width * beforeImg.height
      afterPixels == afterImg.width * afterImg.height
      pixelDifference == Abs(afterPixels - beforePixels)
      diffPercentage == Num(pixelDifference * 100, beforePixels)
  IN [diffPixels |-> pixelDifference,
      totalPixels |-> beforePixels,
      diffPercentage |-> Round2(diffPercentage),
      changeLevel |-> determineChangeLevel(MaxNum(diffPercentage, Num(15, 1))),
      diffImagePath |-> NoPath,
      hasSignificantChange |-> TRUE]

hasSignificantChange_Strict(diffPercentage, opts) ==
  Lt(opts.minChangeThreshold, diffPercentage)

hasSignificantChange_Le(diffPercentage, opts) ==
  ~Lt(opts.minChangeThreshold, diffPercentage)

hasSignificantChange(diffPercentage, opts) ==
  Ge(diffPercentage, opts.minChangeThreshold)

\* the branch for images of equal dimensions; diffPixels is what pixelmatch returned
comparePixels(beforeImg, diffPixels, beforePath, opts) ==
  LET totalPixels == beforeImg.width * beforeImg.height
      diffPercentage == Num(diffPixels * 100, totalPixels)
      changeLevel == determineChangeLevel(diffPercentage)
      significant == hasSignificantChange(diffPercentage, opts)
      write == shouldGenerateDiffImage(opts, significant, changeLevel)
      diffImagePath == IF write THEN generateDiffImagePath(beforePath) ELSE NoPath
  IN [diffPixels |-> diffPixels,
      totalPixels |-> totalPixels,
      diffPercentage |-> Round2(diffPercentage),
      changeLevel |-> changeLevel,
      diffImagePath |-> diffImagePath,
      hasSignificantChange |-> significant]

\* An image read is <<>> when fs.readFile or PNG.sync.read throws, else <<[width, height]>>.
\* The value is [threw, result, wrote]: result is <<>> when the call threw, and
\* wrote is the set of files written.
compareImages(before, after, pixelmatchOut, beforePath, options) ==
  LET opts == MergeOptions(options)
  IN IF before = <<>> \/ after = <<>>
     THEN [threw |-> TRUE, result |-> <<>>, wrote |-> {}]
     ELSE IF before[1].width # after[1].width \/ before[1].height # after[1].height
     THEN [threw |-> FALSE, result |-> <<compareDimensions(before[1], after[1])>>, wrote |-> {}]
     ELSE LET r == comparePixels(before[1], pixelmatchOut, beforePath, opts)
          IN [threw |-> FALSE, result |-> <<r>>,
              wrote |-> IF r.diffImagePath # NoPath THEN {r.diffImagePath} ELSE {}]

\* the default result batchCompare pushes for a failed comparison
fallbackResult ==
  [diffPixels |-> 0,
   totalPixels |-> 0,
   diffPercentage |-> Num(0, 1),
   changeLevel |-> "none",
   diffImagePath |-> NoPath,
   hasSignificantChange |-> FALSE]

\* a batch that leaves out the pairs whose comparison threw
batchCompare_DropFailed(imagePairs, options) ==
  LET all == [i \in 1..Len(imagePairs) |->
                compareImages(imagePairs[i].before, imagePairs[i].after,
                              imagePairs[i].pixelmatchOut, imagePairs[i].beforePath, options)]
      returned == SelectSeq(all, LAMBDA r : ~r.threw)
  IN [results |-> [i \in 1..Len(returned) |-> returned[i].result[1]],
      wrote |-> UNION {all[i].wrote : i \in 1..Len(all)}]

\* imagePairs: a sequence of [before, after, pixelmatchOut, beforePath].
\* The value is [results, wrote].
RECURSIVE batchCompare(_, _)
batchCompare(imagePairs, options) ==
  IF imagePairs = <<>> THEN [results |-> <<>>, wrote |-> {}]
  ELSE LET pair == Head(imagePairs)
           r == compareImages(pair.before, pair.after, pair.pixelmatchOut,
                              pair.beforePath, options)
           rest == batchCompare(Tail(imagePairs), options)
       IN [results |-> <<IF r.threw THEN fallbackResult ELSE r.result[1]>> \o rest.results,
           wrote |-> r.wrote \cup rest.wrote]

---------------------------------------------------------------------------
(* The classifier alone: two percentages p <= q on a grid of GridDen-ths   *)
(* of a percent, 0 .. MaxGrid / GridDen, are classified.                   *)

GridDen == 10

MaxGrid == 510

Grid == {Num(k, GridDen) : k \in 0..MaxGrid}

InitClassify ==
  /\ pc = "classify"
  /\ IdleShot
  /\ IdleRun
  /\ clsIn \in {pq \in Grid \X Grid : ~Lt(pq[2], pq[1])}
  /\ clsOut = <<>>
  /\ IdleCompare
  /\ IdleMerge
  /\ IdleStore
  /\ diffFiles = {}

Classify ==
  /\ pc = "classify"
  /\ clsOut' = <<determineChangeLevel(clsIn[1]), determineChangeLevel(clsIn[2])>>
  /\ pc' = "classified"
  /\ UNCHANGED <<runVars, shotVars, clsIn, cmpVars, mergeVars, storeVars, diffFiles>>

NextClassify == Classify

SpecClassify == InitClassify /\ [][NextClassify]_vars

---------------------------------------------------------------------------
(* One call of compareImages.  The call's inputs are drawn in Init: what   *)
(* the two reads give, what pixelmatch returns, and the options passed.    *)

Widths == {1, 10, 20, 67}

Heights == {1, 3, 10}

Images == [width : Widths, height : Heights]

\* minChangeThreshold, in hundredths of a percent (0 to 100 percent)
MinChangeThresholds == {Num(t, 100) : t \in {0, 10, 50, 100, 1500, 6000, 6667, 10000}}

\* Partial<ComparisonOptions>: each of the two options the verdict depends on is
\* passed or left out
PartialOptions(gen, min) ==
  [k \in (IF gen = <<>> THEN {} ELSE {"generateDiffImage"})
           \cup (IF min = <<>> THEN {} ELSE {"minChangeThreshold"}) |->
     IF k = "generateDiffImage" THEN gen[1] ELSE min[1]]

ComparisonOptionsIn ==
  {PartialOptions(gen, min) :
     gen \in {<<>>} \cup {<<b>> : b \in BOOLEAN},
     min \in {<<>>} \cup {<<t>> : t \in MinChangeThresholds}}

BeforePath == ScreenshotPath(OutputDir, "https://example.com", "before")

AfterPath == ScreenshotPath(OutputDir, "https://example.com", "after")

\* pixelmatch counts pixels of the image: 0 .. width * height
PixelmatchRange(before, after) ==
  IF before # <<>> /\ after # <<>> /\ before = after
  THEN 0..(before[1].width * before[1].height)
  ELSE {0}

InitCompare ==
  /\ pc = "compare"
  /\ IdleShot
  /\ IdleRun
  /\ IdleClassify
  /\ IdleMerge
  /\ IdleStore
  /\ \E before \in {<<>>} \cup {<<i>> : i \in Images},
        after \in {<<>>} \cup {<<i>> : i \in Images},
        options \in ComparisonOptionsIn :
       \E pixelmatchOut \in PixelmatchRange(before, after) :
         cmpIn = [before |-> before, after |-> after, pixelmatchOut |-> pixelmatchOut,
                  beforePath |-> BeforePath, afterPath |-> AfterPath, options |-> options]
  /\ cmpOut = <<>>
  /\ batchOut = <<>>
  /\ diffFiles = {}

CompareImages ==
  /\ pc = "compare"
  /\ LET r == compareImages(cmpIn.before, cmpIn.after, cmpIn.pixelmatchOut,
                            cmpIn.beforePath, cmpIn.options)
     IN /\ cmpOut' = <<[threw |-> r.threw, result |-> r.result]>>
        /\ diffFiles' = diffFiles \cup r.wrote
  /\ pc' = "compared"
  /\ UNCHANGED <<runVars, shotVars, clsVars, mergeVars, storeVars, cmpIn, batchOut>>

\* batchCompare over the one pair of cmpIn
BatchCompare ==
  /\ pc = "compare"
  /\ LET r == batchCompare(<<cmpIn>>, cmpIn.options)
     IN /\ batchOut' = <<r.results>>
        /\ diffFiles' = diffFiles \cup r.wrote
  /\ pc' = "batched"
  /\ UNCHANGED <<runVars, shotVars, clsVars, mergeVars, storeVars, cmpIn, cmpOut>>

NextCompare == CompareImages \/ BatchCompare

SpecCompare == InitCompare /\ [][NextCompare]_vars

---------------------------------------------------------------------------
(* The documented classification: half-open intervals of the percentage    *)

LevelOrder == <<"none", "minimal", "minor", "moderate", "major", "extreme">>

Rank(level) == CHOOSE i \in 1..Len(LevelOrder) : LevelOrder[i] = level

\* lower ends of the six intervals, in LevelOrder; the upper end of an interval is
\* the lower end of the next, and the last interval has none
LowerEnd == <<Num(0, 1), Num(1, 10), Num(1, 1), Num(5, 1), Num(15, 1), Num(50, 1)>>

InInterval(p, level) ==
  LET i == Rank(level)
  IN /\ Ge(p, LowerEnd[i])
     /\ i < Len(LevelOrder) => Lt(p, LowerEnd[i + 1])

IntervalsOf(p) == {level \in ChangeLevel : InInterval(p, level)}

\* C1: determineChangeLevel maps every percentage >= 0 to the one level whose
\* half-open interval [0,0.1) [0.1,1) [1,5) [5,15) [15,50) [50,inf) holds it (so the
\* intervals neither overlap nor leave a gap), and p <= q gives level(p) <= level(q).
C1_ClassifyPartitionMonotonic ==
  pc = "classified" =>
    /\ \A i \in 1..2 : IntervalsOf(clsIn[i]) = {clsOut[i]}
    /\ Rank(clsOut[1]) <= Rank(clsOut[2])

C1_Witness ==
  /\ pc = "classified"
  /\ clsIn = <<Num(1, GridDen), Num(50 * GridDen, GridDen)>>
  /\ clsOut = <<"minimal", "extreme">>

---------------------------------------------------------------------------
(* One call of compareImages: what the claims speak of *)

Compared == pc = "compared"

Returned == Compared /\ ~cmpOut[1].threw

Verdict == cmpOut[1].result[1]

Opts == MergeOptions(cmpIn.options)

BothRead == cmpIn.before # <<>> /\ cmpIn.after # <<>>

EqualDimensions ==
  /\ BothRead
  /\ cmpIn.before[1].width = cmpIn.after[1].width
  /\ cmpIn.before[1].height = cmpIn.after[1].height

DifferentDimensions == BothRead /\ ~EqualDimensions

BeforePixelCount == cmpIn.before[1].width * cmpIn.before[1].height

AfterPixelCount == cmpIn.after[1].width * cmpIn.after[1].height

ExpectedDiffPath ==
  <<<<"/">>, <<"out">>, <<"screenshots">>, <<"example.com", "_before", "_diff", ".png">>>>

DiffWritten == diffFiles # {} \/ Verdict.diffImagePath # NoPath

WritePolicy ==
  /\ Opts.generateDiffImage
  /\ (Verdict.hasSignificantChange \/ Verdict.changeLevel \in {"moderate", "major", "extreme"})

\* the percentage before rounding, from the verdict's own counts
Unrounded == Num(Verdict.diffPixels * 100, Verdict.totalPixels)

\* r is x rounded to two decimals, half up: r = h/100 with h - 1/2 <= 100 x < h + 1/2
IsRound2(r, x) ==
  /\ r.d = 100
  /\ (2 * r.n - 1) * x.d <= 200 * x.n
  /\ 200 * x.n < (2 * r.n + 1) * x.d

\* C2: for images of equal dimensions a diff image is written, and diffImagePath set,
\* only if generateDiffImage and (hasSignificantChange or the level is moderate,
\* major or extreme).
C2_DiffOnlyUnderPolicy ==
  (Compared /\ EqualDimensions) =>
    /\ ~cmpOut[1].threw
    /\ DiffWritten => WritePolicy

C2_Witness ==
  /\ Compared /\ EqualDimensions
  /\ diffFiles = {ExpectedDiffPath}
  /\ Verdict.diffImagePath = ExpectedDiffPath
  /\ ~Verdict.hasSignificantChange
  /\ Verdict.changeLevel = "moderate"

\* C3: for images of equal dimensions and generateDiffImage = true, the diff image
\* is written and its path returned whenever hasSignificantChange or the level is
\* moderate, major or extreme, whatever minChangeThreshold is.
C3_DiffWheneverPolicy ==
  (Compared /\ EqualDimensions /\ WritePolicy) =>
    /\ diffFiles = {ExpectedDiffPath}
    /\ Verdict.diffImagePath = ExpectedDiffPath

\* C4: for images that differ in width or height the verdict has
\* diffPixels = |after - before| pixel counts, totalPixels = the before count, the
\* level of max(percentage, 15) (so major or extreme), hasSignificantChange, and no
\* diff image; 10x10 against 20x10 gives 100, 100, 100.00, extreme.
C4_DimensionMismatch ==
  (Compared /\ DifferentDimensions) =>
    /\ ~cmpOut[1].threw
    /\ Verdict.diffPixels = Abs(AfterPixelCount - BeforePixelCount)
    /\ Verdict.totalPixels = BeforePixelCount
    /\ IntervalsOf(MaxNum(Unrounded, Num(15, 1))) = {Verdict.changeLevel}
    /\ Verdict.changeLevel \in {"major", "extreme"}
    /\ Verdict.hasSignificantChange
    /\ Verdict.diffImagePath = NoPath
    /\ diffFiles = {}
    /\ (cmpIn.before = <<[width |-> 10, height |-> 10]>>
          /\ cmpIn.after = <<[width |-> 20, height |-> 10]>>) =>
         /\ Verdict.diffPixels = 100
         /\ Verdict.totalPixels = 100
         /\ Verdict.diffPercentage = Num(10000, 100)
         /\ Verdict.changeLevel = "extreme"

C4_Witness ==
  /\ Compared
  /\ cmpIn.before = <<[width |-> 67, height |-> 3]>>
  /\ cmpIn.after = <<[width |-> 20, height |-> 10]>>
  /\ "generateDiffImage" \in DOMAIN cmpIn.options
  /\ cmpIn.options.generateDiffImage
  /\ Verdict.diffPixels = 1
  /\ Verdict.changeLevel = "major"

\* C5 as claimed: in every verdict the level is the level of the verdict's reported
\* two-decimal diffPercentage.
C5_LevelOfReportedPercentage ==
  /\ Returned => IntervalsOf(Verdict.diffPercentage) = {Verdict.changeLevel}
  /\ pc = "batched" => IntervalsOf(batchOut[1][1].diffPercentage) = {batchOut[1][1].changeLevel}

\* C5 as amended: the level is the level of the percentage before rounding,
\* diffPixels / totalPixels x 100, for equal dimensions; of the larger of that and 15
\* for different dimensions; and none, with percentage 0, in the batch fallback.
C5_LevelOfUnroundedPercentage ==
  /\ (Returned /\ EqualDimensions) => IntervalsOf(Unrounded) = {Verdict.changeLevel}
  /\ (Returned /\ DifferentDimensions) =>
       IntervalsOf(MaxNum(Unrounded, Num(15, 1))) = {Verdict.changeLevel}
  /\ (pc = "batched" /\ ~BothRead) =>
       /\ batchOut[1][1].changeLevel = "none"
       /\ EqNum(batchOut[1][1].diffPercentage, Num(0, 1))
  /\ (pc = "batched" /\ BothRead) =>
       LET v == batchOut[1][1]
           x == Num(v.diffPixels * 100, v.totalPixels)
       IN IntervalsOf(IF EqualDimensions THEN x ELSE MaxNum(x, Num(15, 1))) = {v.changeLevel}

\* rounding carries 2/201 = 0.995..% to the reported 1.00 while the level stays minimal
C5_Witness ==
  /\ Returned /\ EqualDimensions
  /\ Verdict.totalPixels = 201
  /\ Verdict.diffPixels = 2
  /\ Verdict.diffPercentage = Num(100, 100)
  /\ Verdict.changeLevel = "minimal"

\* C6 as claimed: for equal dimensions totalPixels = width x height, diffPercentage
\* is the percentage rounded to two decimals, and hasSignificantChange holds exactly
\* when the reported diffPercentage >= minChangeThreshold.
C6_SignificantByReportedPercentage ==
  (Returned /\ EqualDimensions) =>
    /\ Verdict.totalPixels = BeforePixelCount
    /\ Verdict.diffPixels = cmpIn.pixelmatchOut
    /\ IsRound2(Verdict.diffPercentage, Unrounded)
    /\ Verdict.hasSignificantChange <=> Ge(Verdict.diffPercentage, Opts.minChangeThreshold)

\* C6 as amended: hasSignificantChange holds exactly when the percentage before
\* rounding, diffPixels / totalPixels x 100, is >= minChangeThreshold.
C6_SignificantByUnroundedPercentage ==
  (Returned /\ EqualDimensions) =>
    /\ Verdict.totalPixels = BeforePixelCount
    /\ Verdict.diffPixels = cmpIn.pixelmatchOut
    /\ IsRound2(Verdict.diffPercentage, Unrounded)
    /\ Verdict.hasSignificantChange <=>
         Verdict.diffPixels * 100 * Opts.minChangeThreshold.d
           >= Opts.minChangeThreshold.n * Verdict.totalPixels

\* 2 of 3 pixels: 66.666..% is reported as 66.67 and is below a threshold of 66.67
C6_Witness ==
  /\ Returned /\ EqualDimensions
  /\ Verdict.totalPixels = 3
  /\ Verdict.diffPixels = 2
  /\ Verdict.diffPercentage = Num(6667, 100)
  /\ Opts.minChangeThreshold = Num(6667, 100)
  /\ ~Verdict.hasSignificantChange

NoDifferenceVerdict ==
  /\ Verdict.diffPixels = 0
  /\ EqNum(Verdict.diffPercentage, Num(0, 1))
  /\ Verdict.changeLevel = "none"

\* C7 as claimed: equal dimensions and no differing pixel give diffPixels 0,
\* diffPercentage 0.00, level none, hasSignificantChange false and no diff image,
\* for every minChangeThreshold from 0 to 100.
C7_IdenticalNeverSignificant ==
  (Returned /\ EqualDimensions /\ cmpIn.pixelmatchOut = 0) =>
    /\ NoDifferenceVerdict
    /\ ~Verdict.hasSignificantChange
    /\ ~DiffWritten

\* C7 as amended: the same for every minChangeThreshold above 0; at
\* minChangeThreshold = 0 the verdict has hasSignificantChange true and the diff
\* image is written exactly when generateDiffImage.
C7_IdenticalSignificantOnlyAtZero ==
  (Returned /\ EqualDimensions /\ cmpIn.pixelmatchOut = 0) =>
    /\ NoDifferenceVerdict
    /\ Opts.minChangeThreshold.n > 0 => (~Verdict.hasSignificantChange /\ ~DiffWritten)
    /\ Opts.minChangeThreshold.n = 0 =>
         /\ Verdict.hasSignificantChange
         /\ DiffWritten <=> Opts.generateDiffImage
         /\ Opts.generateDiffImage =>
              (diffFiles = {ExpectedDiffPath} /\ Verdict.diffImagePath = ExpectedDiffPath)

C7_Witness ==
  /\ Returned /\ EqualDimensions
  /\ cmpIn.pixelmatchOut = 0
  /\ Opts.minChangeThreshold = Num(10000, 100)
  /\ Opts.generateDiffImage
  /\ "generateDiffImage" \in DOMAIN cmpIn.options
  /\ diffFiles = {}

---------------------------------------------------------------------------
(* ScreenshotResult and mergeBeforeAfterResultsWithComparison *)

\* error: undefined (the empty string is as falsy as undefined)
NoError == ""

\* what takeScreenshots pushes for one URL: the path of the mode, or an error
ScreenshotResult(url, mode, path, error, timestamp) ==
  [url |-> url,
   singlePath |-> IF mode = "single" THEN path ELSE NoPath,
   beforePath |-> IF mode = "before" THEN path ELSE NoPath,
   afterPath |-> IF mode = "after" THEN path ELSE NoPath,
   error |-> error,
   timestamp |-> timestamp,
   comparison |-> <<>>]

\* afterResults.find((r) => r.url === url): the index of the first match, 0 for undefined
find_Last(afterResults, url) ==
  LET matches == {j \in 1..Len(afterResults) : afterResults[j].url = url}
  IN IF matches = {} THEN 0 ELSE CHOOSE j \in matches : \A k \in matches : k <= j

find(afterResults, url) ==
  LET matches == {j \in 1..Len(afterResults) : afterResults[j].url = url}
  IN IF matches = {} THEN 0 ELSE CHOOSE j \in matches : \A k \in matches : j <= k

\* the result object built for one before outcome, before any comparison
mergeResult(beforeResult, afterResults) ==
  LET j == find(afterResults, beforeResult.url)
  IN [url |-> beforeResult.url,
      singlePath |-> NoPath,
      beforePath |-> beforeResult.beforePath,
      afterPath |-> IF j = 0 THEN NoPath ELSE afterResults[j].afterPath,
      error |-> IF beforeResult.error # NoError THEN beforeResult.error
                ELSE IF j = 0 THEN NoError ELSE afterResults[j].error,
      timestamp |-> beforeResult.timestamp,
      comparison |-> <<>>]

shouldCompare_NoAfterPath(result) ==
  result.beforePath # NoPath /\ result.error = NoError

\* if (result.beforePath && result.afterPath && !result.error)
shouldCompare(result) ==
  result.beforePath # NoPath /\ result.afterPath # NoPath /\ result.error = NoError

RECURSIVE mergeFrom(_, _, _, _, _, _)

\* a merge that records a failed comparison as the error of the result
mergeFrom_ErrorOnThrow(i, beforeResults, afterResults, comparisonOptions, reads, pixelmatchOut) ==
  IF i > Len(beforeResults) THEN [merged |-> <<>>, calls |-> <<>>, wrote |-> {}]
  ELSE LET result == mergeResult(beforeResults[i], afterResults)
           compare == shouldCompare(result)
           r == compareImages(reads[result.beforePath], reads[result.afterPath],
                              pixelmatchOut, result.beforePath, comparisonOptions)
           rest == mergeFrom(i + 1, beforeResults, afterResults, comparisonOptions,
                             reads, pixelmatchOut)
       IN [merged |-> <<IF compare /\ ~r.threw
                        THEN [result EXCEPT !.comparison = r.result]
                        ELSE IF compare
                        THEN [result EXCEPT !.error = "Failed to compare images"]
                        ELSE result>> \o rest.merged,
           calls |-> (IF compare
                      THEN <<[index |-> i, beforePath |-> result.beforePath,
                              afterPath |-> result.afterPath]>>
                      ELSE <<>>) \o rest.calls,
           wrote |-> (IF compare THEN r.wrote ELSE {}) \cup rest.wrote]

\* reads[path] is what reading and decoding the file gives, as in compareImages.
\* The value is [merged, calls, wrote] for the before outcomes from index i on.
mergeFrom(i, beforeResults, afterResults, comparisonOptions, reads, pixelmatchOut) ==
  IF i > Len(beforeResults) THEN [merged |-> <<>>, calls |-> <<>>, wrote |-> {}]
  ELSE LET result == mergeResult(beforeResults[i], afterResults)
           compare == shouldCompare(result)
           r == compareImages(reads[result.beforePath], reads[result.afterPath],
                              pixelmatchOut, result.beforePath, comparisonOptions)
           rest == mergeFrom(i + 1, beforeResults, afterResults, comparisonOptions,
                             reads, pixelmatchOut)
       IN [merged |-> <<IF compare /\ ~r.threw
                        THEN [result EXCEPT !.comparison = r.result]
                        ELSE result>> \o rest.merged,
           calls |-> (IF compare
                      THEN <<[index |-> i, beforePath |-> result.beforePath,
                              afterPath |-> result.afterPath]>>
                      ELSE <<>>) \o rest.calls,
           wrote |-> (IF compare THEN r.wrote ELSE {}) \cup rest.wrote]

mergeBeforeAfterResultsWithComparison(beforeResults, afterResults, comparisonOptions, reads, pixelmatchOut) ==
  mergeFrom(1, beforeResults, afterResults, comparisonOptions, reads, pixelmatchOut)

---------------------------------------------------------------------------
(* One call of merge.  Drawn in Init: the before and the after outcomes    *)
(* (each the path of its mode or an error), what reading each screenshot   *)
(* gives, and what pixelmatch returns.                                     *)

MaxResults == 2

BeforeError == "net::ERR_NAME_NOT_RESOLVED"

AfterError == "Timeout 30000ms exceeded"

\* the outcome at position i of a takeScreenshots run; timestamps follow the order
\* of capture, the before run first
Outcome(url, mode, ok, i) ==
  ScreenshotResult(url, mode,
                   IF ok THEN ScreenshotPath(OutputDir, url, mode) ELSE NoPath,
                   IF ok THEN NoError ELSE IF mode = "before" THEN BeforeError ELSE AfterError,
                   IF mode = "after" THEN MaxResults + i ELSE i)

Outcomes(mode) ==
  UNION {{[i \in 1..n |-> Outcome(c[i][1], mode, c[i][2], i)] : c \in [1..n -> Urls \X BOOLEAN]}
           : n \in 0..MaxResults}

\* the options the capture command passes: its defaults for the two thresholds
CaptureComparisonOptions ==
  [threshold |-> Num(1, 10),
   minChangeThreshold |-> Num(5, 10),
   generateDiffImage |-> TRUE,
   ignoreAntialiasing |-> FALSE]

ScreenshotPaths == {ScreenshotPath(OutputDir, u, m) : u \in Urls, m \in {"before", "after"}}

SmallImage == [width |-> 1, height |-> 1]

WideImage == [width |-> 2, height |-> 1]

\* NoPath is never read; a before screenshot is read as 1x1, an after one is
\* unreadable (the read throws), 1x1 or 2x1
Reads ==
  {f \in [ScreenshotPaths \cup {NoPath} -> {<<>>, <<SmallImage>>, <<WideImage>>}] :
     /\ f[NoPath] = <<>>
     /\ \A u \in Urls : f[ScreenshotPath(OutputDir, u, "before")] = <<SmallImage>>}

InitMerge ==
  /\ pc = "merge"
  /\ IdleShot
  /\ IdleRun
  /\ IdleClassify
  /\ IdleCompare
  /\ IdleStore
  /\ mergeIn \in [beforeResults : Outcomes("before"),
                  afterResults : Outcomes("after"),
                  comparisonOptions : {CaptureComparisonOptions},
                  reads : Reads,
                  pixelmatchOut : 0..1]
  /\ mergeOut = <<>>
  /\ compareCalls = <<>>
  /\ diffFiles = {}

Merge ==
  /\ pc = "merge"
  /\ LET r == mergeBeforeAfterResultsWithComparison(
                mergeIn.beforeResults, mergeIn.afterResults, mergeIn.comparisonOptions,
                mergeIn.reads, mergeIn.pixelmatchOut)
     IN /\ mergeOut' = <<r.merged>>
        /\ compareCalls' = r.calls
        /\ diffFiles' = diffFiles \cup r.wrote
  /\ pc' = "merged"
  /\ UNCHANGED <<runVars, shotVars, clsVars, cmpVars, storeVars, mergeIn>>

NextMerge == Merge

SpecMerge == InitMerge /\ [][NextMerge]_vars

---------------------------------------------------------------------------
(* One call of merge: what the claims speak of *)

Merged == mergeOut[1]

FirstMatch(i) ==
  LET matches == {j \in 1..Len(mergeIn.afterResults) :
                    mergeIn.afterResults[j].url = mergeIn.beforeResults[i].url}
  IN IF matches = {} THEN <<>>
     ELSE <<mergeIn.afterResults[CHOOSE j \in matches : \A k \in matches : j <= k]>>

\* C8: merge returns one result per before outcome, in their order, each with the
\* before outcome's url, beforePath and timestamp, the afterPath of the first after
\* outcome of the same url (none if there is no such outcome), and the before
\* outcome's error if it has one, otherwise the matched after outcome's.
C8_MergePairsByUrl ==
  pc = "merged" =>
    /\ Len(Merged) = Len(mergeIn.beforeResults)
    /\ \A i \in 1..Len(Merged) :
         LET b == mergeIn.beforeResults[i]
             a == FirstMatch(i)
         IN /\ Merged[i].url = b.url
            /\ Merged[i].beforePath = b.beforePath
            /\ Merged[i].timestamp = b.timestamp
            /\ Merged[i].afterPath = (IF a = <<>> THEN NoPath ELSE a[1].afterPath)
            /\ Merged[i].error =
                 (IF b.error # NoError THEN b.error
                  ELSE IF a = <<>> THEN NoError ELSE a[1].error)

\* the second before outcome has no error and is paired with the first of two after
\* outcomes of its url, a failed one, and not with the second, a successful one
C8_Witness ==
  /\ pc = "merged"
  /\ Len(Merged) = 2
  /\ Len(mergeIn.afterResults) = 2
  /\ mergeIn.afterResults[1].url = mergeIn.afterResults[2].url
  /\ mergeIn.afterResults[2].afterPath # NoPath
  /\ Merged[1].error = BeforeError
  /\ Merged[2].beforePath # NoPath
  /\ Merged[2].afterPath = NoPath
  /\ Merged[2].error = AfterError

HasBothPathsNoError(result) ==
  result.beforePath # NoPath /\ result.afterPath # NoPath /\ result.error = NoError

CallIndexes == {compareCalls[k].index : k \in 1..Len(compareCalls)}

\* C9: a merged result carries a comparison only if it has both paths and no error;
\* for a result with a missing path or an error compareImages is not called and
\* comparison stays absent.
C9_ComparisonOnlyForCompletePairs ==
  pc = "merged" =>
    \A i \in 1..Len(Merged) :
      /\ Merged[i].comparison # <<>> => HasBothPathsNoError(Merged[i])
      /\ ~HasBothPathsNoError(Merged[i]) => (i \notin CallIndexes /\ Merged[i].comparison = <<>>)
      /\ i \in CallIndexes =>
           \E k \in 1..Len(compareCalls) :
             /\ compareCalls[k].index = i
             /\ compareCalls[k].beforePath = Merged[i].beforePath
             /\ compareCalls[k].afterPath = Merged[i].afterPath

\* one result is compared and carries a verdict, the other has no after outcome
\* and is not compared
C9_Witness ==
  /\ pc = "merged"
  /\ Len(Merged) = 2
  /\ Merged[1].comparison # <<>>
  /\ Merged[2].beforePath # NoPath
  /\ Merged[2].afterPath = NoPath
  /\ Merged[2].error = NoError
  /\ Merged[2].comparison = <<>>
  /\ CallIndexes = {1}

---------------------------------------------------------------------------
(* path.relative and path.resolve on absolute paths *)

IsAbsolute(p) == p # <<>> /\ p[1] = <<"/">>

MinOf(a, b) == IF a < b THEN a ELSE b

CommonPrefixLen(a, b) ==
  CHOOSE k \in 0..MinOf(Len(a), Len(b)) :
    /\ \A i \in 1..k : a[i] = b[i]
    /\ k = MinOf(Len(a), Len(b)) \/ a[k + 1] # b[k + 1]

\* path.relative(from, to): up from `from` to the common ancestor, then down to `to`
relative(from, to) ==
  LET k == CommonPrefixLen(from, to)
  IN [i \in 1..(Len(from) - k) |-> <<"..">>] \o SubSeq(to, k + 1, Len(to))

\* the segments of p applied to acc, one by one: ".." drops the last segment
\* (never the root)
RECURSIVE normalizeOnto(_, _)
normalizeOnto(acc, p) ==
  IF p = <<>> THEN acc
  ELSE IF Head(p) = <<"..">>
       THEN normalizeOnto(IF Len(acc) > 1 THEN SubSeq(acc, 1, Len(acc) - 1) ELSE acc, Tail(p))
       ELSE normalizeOnto(Append(acc, Head(p)), Tail(p))

\* path.resolve(baseDir, p) for an absolute baseDir
resolve(baseDir, p) ==
  IF IsAbsolute(p) THEN normalizeOnto(<<>>, p) ELSE normalizeOnto(baseDir, p)

---------------------------------------------------------------------------
(* DataPersistence.  The text of the record is modelled by its fields: a   *)
(* field holds the characters the template puts there, so an undefined     *)
(* value reads "undefined".  A quoted field is a JSON string whatever it   *)
(* holds; an unquoted one is JSON only if it reads true, false or a number.*)

\* `${x}` for a path: the path, or the word undefined (a one-segment relative path)
PathText(p) == IF p = NoPath THEN <<<<"undefined">>>> ELSE p

\* `${x}` for an ISO timestamp, <<>> being undefined
TimeText(t) == IF t = <<>> THEN [text |-> "undefined"] ELSE [iso |-> t[1]]

\* `${x}` for a boolean, <<>> being undefined
BoolText(b) == IF b = <<>> THEN "undefined" ELSE IF b[1] THEN "true" ELSE "false"

\* formatDuration(ms)
formatDuration(ms) ==
  LET seconds == ms \div 1000
      minutes == seconds \div 60
  IN IF minutes > 0
     THEN [minutes |-> <<minutes>>, seconds |-> seconds % 60]
     ELSE [minutes |-> <<>>, seconds |-> seconds]

\* one entry of dataFile.results as saveDataFile builds it
dataFileResult(result, dataFilePath) ==
  LET dir == dirname(dataFilePath)
      rel(p) == IF p # NoPath THEN relative(dir, p) ELSE NoPath
  IN [url |-> result.url,
      timestamp |-> IF result.singlePath # NoPath THEN <<result.timestamp>> ELSE <<>>,
      beforeTimestamp |-> IF result.beforePath # NoPath THEN <<result.timestamp>> ELSE <<>>,
      afterTimestamp |-> IF result.afterPath # NoPath THEN <<result.timestamp>> ELSE <<>>,
      singlePath |-> rel(result.singlePath),
      beforePath |-> rel(result.beforePath),
      afterPath |-> rel(result.afterPath),
      error |-> result.error,
      beforeError |-> NoError,
      afterError |-> NoError,
      success |-> result.error = NoError,
      beforeSuccess |-> IF result.beforePath # NoPath THEN <<result.error = NoError>> ELSE <<>>,
      afterSuccess |-> IF result.afterPath # NoPath THEN <<result.error = NoError>> ELSE <<>>,
      comparison |->
        IF result.comparison # <<>>
        THEN <<[result.comparison[1] EXCEPT !.diffImagePath = rel(@)]>>
        ELSE <<>>]

\* the object saveDataFile hands to generateJSONCContent
buildDataFile(reportData, dataFilePath, options, beforePhase, afterPhase) ==
  [metadata |->
     [version |-> "1.0.0",
      mode |-> reportData.mode,
      generatedAt |-> reportData.generatedAt,
      totalUrls |-> reportData.totalUrls,
      successCount |-> reportData.successCount,
      errorCount |-> reportData.errorCount,
      options |-> options,
      beforePhase |-> beforePhase,
      afterPhase |-> afterPhase],
   results |-> [i \in 1..Len(reportData.results) |->
                  dataFileResult(reportData.results[i], dataFilePath)]]

\* the text of one result in mode single: error is written only when truthy
singleResultText(result) ==
  [url |-> result.url,
   timestamp |-> TimeText(result.timestamp),
   singlePath |-> PathText(result.singlePath),
   success |-> BoolText(<<result.success>>),
   error |-> IF result.error # NoError THEN <<result.error>> ELSE <<>>]

\* the text of one result in mode before-after: beforeError and afterError are
\* written only when truthy, the comparison block only when there is one
beforeAfterResultText(result) ==
  [url |-> result.url,
   beforeTimestamp |-> TimeText(result.beforeTimestamp),
   afterTimestamp |-> TimeText(result.afterTimestamp),
   beforePath |-> PathText(result.beforePath),
   afterPath |-> PathText(result.afterPath),
   beforeSuccess |-> BoolText(result.beforeSuccess),
   afterSuccess |-> BoolText(result.afterSuccess),
   success |-> BoolText(<<result.success>>),
   beforeError |-> IF result.beforeError # NoError THEN <<result.beforeError>> ELSE <<>>,
   afterError |-> IF result.afterError # NoError THEN <<result.afterError>> ELSE <<>>,
   comparison |->
     IF result.comparison # <<>>
     THEN <<[diffPixels |-> result.comparison[1].diffPixels,
             totalPixels |-> result.comparison[1].totalPixels,
             diffPercentage |-> result.comparison[1].diffPercentage,
             changeLevel |-> result.comparison[1].changeLevel,
             hasSignificantChange |-> BoolText(<<result.comparison[1].hasSignificantChange>>),
             diffImagePath |-> IF result.comparison[1].diffImagePath # NoPath
                               THEN <<result.comparison[1].diffImagePath>> ELSE <<>>]>>
     ELSE <<>>]

\* The text written: comments, the metadata block (the phase timings only when
\* both are given) and one block per result, of the shape of the mode.
generateJSONCContent(dataFile) ==
  LET mode == IF dataFile.metadata.mode = "single" THEN "single" ELSE "before-after"
      md == dataFile.metadata
  IN [comments |-> TRUE,
      shape |-> mode,
      metadata |->
        [version |-> md.version,
         mode |-> md.mode,
         generatedAt |-> md.generatedAt,
         totalUrls |-> md.totalUrls,
         successCount |-> md.successCount,
         errorCount |-> md.errorCount,
         options |-> md.options,
         phases |-> IF md.beforePhase # <<>> /\ md.afterPhase # <<>>
                    THEN <<[beforePhase |-> md.beforePhase[1], afterPhase |-> md.afterPhase[1]]>>
                    ELSE <<>>],
      results |-> [i \in 1..Len(dataFile.results) |->
                     IF mode = "single" THEN singleResultText(dataFile.results[i])
                     ELSE beforeAfterResultText(dataFile.results[i])]]

\* the content saveDataFile writes to dataFilePath
saveDataFile(reportData, dataFilePath, options, beforePhase, afterPhase) ==
  generateJSONCContent(buildDataFile(reportData, dataFilePath, options, beforePhase, afterPhase))

\* a write that keeps the results the file held and puts the new ones after them
writeFile_KeepResults(file, content) ==
  IF file = <<>> THEN <<content>>
  ELSE <<[content EXCEPT !.results = file[1].results \o @]>>

\* fs.promises.writeFile(dataFilePath, jsonContent, 'utf8'): the file, there or not,
\* holds the content
writeFile(file, content) == <<content>>

---------------------------------------------------------------------------
(* The text of a record, character by character.  A text is a sequence of  *)
(* tokens: Space, Newline, Quote, the comment marks "//", "/*" and "*/",   *)
(* and any other string, which stands for characters that are none of      *)
(* these.                                                                  *)

Space == "SPACE"

Newline == "NEWLINE"

Quote == "QUOTE"

IsBlank(line) == \A i \in 1..Len(line) : line[i] = Space

\* the lines of a text: the runs of tokens between the Newline tokens
RECURSIVE SplitLines(_)
SplitLines(text) ==
  IF \A i \in 1..Len(text) : text[i] # Newline THEN <<text>>
  ELSE LET n == CHOOSE i \in 1..Len(text) :
                  text[i] = Newline /\ \A k \in 1..(i - 1) : text[k] # Newline
       IN <<SubSeq(text, 1, n - 1)>> \o SplitLines(SubSeq(text, n + 1, Len(text)))

RECURSIVE JoinLines(_)
JoinLines(lines) ==
  IF Len(lines) = 1 THEN lines[1]
  ELSE lines[1] \o <<Newline>> \o JoinLines(Tail(lines))

\* content.replace(/^\s*\/\/.*$/gm, ''): a line that is white space and then "//"
\* is emptied
stripCommentLine(line) ==
  IF \E j \in 1..Len(line) : line[j] = "//" /\ IsBlank(SubSeq(line, 1, j - 1))
  THEN <<>>
  ELSE line

\* result.replace(/(?<!["'])(\s+)\/\/.*$/gm, '$1'): the line is cut at the first
\* "//" that follows white space, unless that white space is one character right
\* after a quote
stripInlineComment(line) ==
  LET cuts == {j \in 2..Len(line) :
                 /\ line[j] = "//"
                 /\ \E i \in 1..(j - 1) :
                      /\ IsBlank(SubSeq(line, i, j - 1))
                      /\ i = 1 \/ line[i - 1] # Quote}
  IN IF cuts = {} THEN line
     ELSE SubSeq(line, 1, (CHOOSE j \in cuts : \A k \in cuts : j <= k) - 1)

\* result.replace(/\/\*[\s\S]*?\*\//g, ''): from each "/*" to the next "*/",
\* whatever lies between
RECURSIVE stripBlockComments(_)
stripBlockComments(text) ==
  LET opens == {a \in 1..Len(text) :
                  text[a] = "/*" /\ \E b \in (a + 1)..Len(text) : text[b] = "*/"}
  IN IF opens = {} THEN text
     ELSE LET a == CHOOSE x \in opens : \A y \in opens : x <= y
              b == CHOOSE x \in (a + 1)..Len(text) :
                     text[x] = "*/" /\ \A y \in (a + 1)..(x - 1) : text[y] # "*/"
          IN SubSeq(text, 1, a - 1) \o stripBlockComments(SubSeq(text, b + 1, Len(text)))

\* result.replace(/^\s*\n/gm, ''): the lines of white space that a line follows
\* are removed
stripBlankLines(lines) ==
  LET kept == {i \in 1..Len(lines) : i = Len(lines) \/ ~IsBlank(lines[i])}
      nth(k) == CHOOSE i \in kept : Cardinality({j \in kept : j < i}) = k - 1
  IN [k \in 1..Cardinality(kept) |-> lines[nth(k)]]

\* the four replacements, in the order of the code
stripText(text) ==
  LET lines == SplitLines(text)
      r1 == [i \in 1..Len(lines) |-> stripCommentLine(lines[i])]
      r2 == [i \in 1..Len(r1) |-> stripInlineComment(r1[i])]
      r3 == stripBlockComments(JoinLines(r2))
  IN JoinLines(stripBlankLines(SplitLines(r3)))

\* A text given character by character (shape text) goes through the four
\* replacements.  A text given by its fields holds no comment mark in a string: its
\* comments are removed and its strings are left.
stripJSONComments(content) ==
  IF content.shape = "text"
  THEN [content EXCEPT !.comments = FALSE, !.text = stripText(content.text)]
  ELSE [content EXCEPT !.comments = FALSE]

IsJsonLiteral(text) == text \in {"true", "false"}

\* whether JSON.parse accepts the text: no comment left and, in a text of the
\* writer, every unquoted boolean field reads true or false; a text of another
\* hand (shape json) says itself whether it is well formed
JsonParses(content) ==
  /\ ~content.comments
  /\ content.shape = "json" => content.wellFormed
  /\ content.shape # "json" => \A i \in 1..Len(content.results) :
       LET r == content.results[i]
       IN /\ IsJsonLiteral(r.success)
          /\ content.shape = "before-after" =>
               /\ IsJsonLiteral(r.beforeSuccess)
               /\ IsJsonLiteral(r.afterSuccess)
               /\ r.comparison # <<>> => IsJsonLiteral(r.comparison[1].hasSignificantChange)

\* the object JSON.parse gives for one result; a key the text does not hold is undefined
parseResult(shape, r) ==
  IF shape = "single"
  THEN [url |-> r.url,
        timestamp |-> <<r.timestamp>>,
        beforeTimestamp |-> <<>>,
        afterTimestamp |-> <<>>,
        singlePath |-> r.singlePath,
        beforePath |-> NoPath,
        afterPath |-> NoPath,
        error |-> IF r.error = <<>> THEN NoError ELSE r.error[1],
        beforeError |-> NoError,
        afterError |-> NoError,
        success |-> r.success = "true",
        beforeSuccess |-> <<>>,
        afterSuccess |-> <<>>,
        comparison |-> <<>>]
  ELSE [url |-> r.url,
        timestamp |-> <<>>,
        beforeTimestamp |-> <<r.beforeTimestamp>>,
        afterTimestamp |-> <<r.afterTimestamp>>,
        singlePath |-> NoPath,
        beforePath |-> r.beforePath,
        afterPath |-> r.afterPath,
        error |-> NoError,
        beforeError |-> IF r.beforeError = <<>> THEN NoError ELSE r.beforeError[1],
        afterError |-> IF r.afterError = <<>> THEN NoError ELSE r.afterError[1],
        success |-> r.success = "true",
        beforeSuccess |-> <<r.beforeSuccess = "true">>,
        afterSuccess |-> <<r.afterSuccess = "true">>,
        comparison |->
          IF r.comparison = <<>> THEN <<>>
          ELSE <<[diffPixels |-> r.comparison[1].diffPixels,
                  totalPixels |-> r.comparison[1].totalPixels,
                  diffPercentage |-> r.comparison[1].diffPercentage,
                  changeLevel |-> r.comparison[1].changeLevel,
                  hasSignificantChange |-> r.comparison[1].hasSignificantChange = "true",
                  diffImagePath |-> IF r.comparison[1].diffImagePath = <<>> THEN NoPath
                                    ELSE r.comparison[1].diffImagePath[1]]>>]

\* JSON.parse of a text it accepts.  metadata is <<>> when the key is missing;
\* results holds the elements when the value of the key is an array (resultsKind
\* array), else the key is missing (absent) or holds another value (object).
parseDataFile(content) ==
  IF content.shape = "json" THEN content.value ELSE
  [metadata |->
     <<[version |-> content.metadata.version,
      mode |-> content.metadata.mode,
      generatedAt |-> content.metadata.generatedAt,
      totalUrls |-> content.metadata.totalUrls,
      successCount |-> content.metadata.successCount,
      errorCount |-> content.metadata.errorCount,
      options |-> content.metadata.options,
      beforePhase |-> IF content.metadata.phases = <<>> THEN <<>>
                      ELSE <<content.metadata.phases[1].beforePhase>>,
      afterPhase |-> IF content.metadata.phases = <<>> THEN <<>>
                     ELSE <<content.metadata.phases[1].afterPhase>>]>>,
   resultsKind |-> "array",
   results |-> [i \in 1..Len(content.results) |-> parseResult(content.shape, content.results[i])]]

NoViolation == [message |-> "", index |-> 0]

validateDataFile_NoModeCheck(dataFile) ==
  IF dataFile.metadata = <<>>
  THEN [message |-> "Missing metadata", index |-> 0]
  ELSE IF dataFile.metadata[1].version = ""
  THEN [message |-> "Missing version in metadata", index |-> 0]
  ELSE IF dataFile.resultsKind # "array"
  THEN [message |-> "Missing or invalid results array", index |-> 0]
  ELSE IF \E i \in 1..Len(dataFile.results) : dataFile.results[i].url = ""
  THEN [message |-> "Missing URL in result",
        index |-> (CHOOSE i \in 1..Len(dataFile.results) :
                     /\ dataFile.results[i].url = ""
                     /\ \A k \in 1..(i - 1) : dataFile.results[k].url # "") - 1]
  ELSE NoViolation

\* the error validateDataFile throws, NoViolation when it returns: the checks in
\* the order of the code, the results in the order of the array
validateDataFile(dataFile) ==
  LET mode == dataFile.metadata[1].mode
      bad(i) ==
        LET result == dataFile.results[i]
        IN \/ result.url = ""
           \/ mode = "single" /\ result.singlePath = NoPath /\ result.success
           \/ /\ mode = "before-after"
              /\ result.beforePath = NoPath /\ result.afterPath = NoPath /\ result.success
      firstBad == CHOOSE i \in 1..Len(dataFile.results) :
                    bad(i) /\ \A k \in 1..(i - 1) : ~bad(k)
  IN IF dataFile.metadata = <<>>
     THEN [message |-> "Missing metadata", index |-> 0]
     ELSE IF dataFile.metadata[1].version = ""
     THEN [message |-> "Missing version in metadata", index |-> 0]
     ELSE IF mode \notin {"single", "before-after"}
     THEN [message |-> "Invalid or missing mode in metadata", index |-> 0]
     ELSE IF dataFile.resultsKind # "array"
     THEN [message |-> "Missing or invalid results array", index |-> 0]
     ELSE IF \A i \in 1..Len(dataFile.results) : ~bad(i)
     THEN NoViolation
     ELSE LET result == dataFile.results[firstBad]
          IN [message |->
                IF result.url = "" THEN "Missing URL in result"
                ELSE IF mode = "single" /\ result.singlePath = NoPath /\ result.success
                THEN "Missing singlePath in successful result"
                ELSE "Missing beforePath or afterPath in successful result",
              index |-> firstBad - 1]

\* file is <<>> when dataFilePath does not exist.  The value is [ok, dataFile, error].
loadDataFile(file) ==
  IF file = <<>>
  THEN [ok |-> FALSE, dataFile |-> <<>>, error |-> [message |-> "Data file not found", index |-> 0]]
  ELSE LET jsonContent == stripJSONComments(file[1])
       IN IF ~JsonParses(jsonContent)
          THEN [ok |-> FALSE, dataFile |-> <<>>,
                error |-> [message |-> "Invalid data file format: JSON.parse", index |-> 0]]
          ELSE LET dataFile == parseDataFile(jsonContent)
                   violation == validateDataFile(dataFile)
               IN IF violation = NoViolation
                  THEN [ok |-> TRUE, dataFile |-> <<dataFile>>, error |-> NoViolation]
                  ELSE [ok |-> FALSE, dataFile |-> <<>>, error |-> violation]

resolveImagePaths(dataFile, dataFilePath) ==
  LET baseDir == dirname(dataFilePath)
      abs(p) == IF p # NoPath THEN resolve(baseDir, p) ELSE NoPath
  IN [dataFile EXCEPT !.results =
        [i \in 1..Len(dataFile.results) |->
           LET result == dataFile.results[i]
           IN [result EXCEPT
                 !.singlePath = abs(@),
                 !.beforePath = abs(@),
                 !.afterPath = abs(@),
                 !.comparison = IF @ # <<>>
                                THEN <<[@[1] EXCEPT !.diffImagePath = abs(@)]>>
                                ELSE <<>>]]]

resolveImagePathsArgument_InPlace(dataFile, dataFilePath) ==
  resolveImagePaths(dataFile, dataFilePath)

\* the object passed to resolveImagePaths, after the call: the spreads and the map
\* build new objects, nothing is assigned to dataFile or to what it holds
resolveImagePathsArgument(dataFile, dataFilePath) == dataFile

---------------------------------------------------------------------------
(* The record store after a capture: the capture command builds reportData *)
(* from its run (one run in mode single, or a before and an after run over *)
(* the same URLs, merged), saves it, and the record is then loaded and its *)
(* paths resolved.                                                         *)

\* takeScreenshots(urls, options, mode), ok[i] telling whether urls[i] was captured
takeScreenshots(urls, ok, mode) ==
  [i \in 1..Len(urls) |-> Outcome(urls[i], mode, ok[i], i)]

Count(results, failed) ==
  Cardinality({i \in 1..Len(results) : (results[i].error # NoError) = failed})

\* a reportData that counts as successes the results that have a screenshot
captureReportData_CountPaths(allResults, mode, urls) ==
  [results |-> allResults,
   mode |-> mode,
   generatedAt |-> 2 * MaxResults + 1,
   totalUrls |-> Len(urls),
   successCount |-> Cardinality({i \in 1..Len(allResults) :
                                   \/ allResults[i].singlePath # NoPath
                                   \/ allResults[i].beforePath # NoPath
                                   \/ allResults[i].afterPath # NoPath}),
   errorCount |-> Count(allResults, TRUE)]

\* reportData of the capture command
captureReportData(allResults, mode, urls) ==
  [results |-> allResults,
   mode |-> mode,
   generatedAt |-> 2 * MaxResults + 1,
   totalUrls |-> Len(urls),
   successCount |-> Count(allResults, FALSE),
   errorCount |-> Count(allResults, TRUE)]

\* a timing from the first to the last outcome of the run
phase_FirstLast(results) ==
  [startTime |-> results[1].timestamp,
   endTime |-> results[Len(results)].timestamp,
   duration |-> formatDuration(results[Len(results)].timestamp - results[1].timestamp)]

\* the timing of one phase: from the earliest to the latest timestamp of its run
phase(results) ==
  LET times == {results[i].timestamp : i \in 1..Len(results)}
      start == CHOOSE t \in times : \A u \in times : t <= u
      end == CHOOSE t \in times : \A u \in times : u <= t
  IN [startTime |-> start, endTime |-> end, duration |-> formatDuration(end - start)]

\* beforePhase and afterPhase of the capture command with --before-after: computed
\* only when both runs have outcomes
phaseTiming(beforeResults, afterResults) ==
  LET timed == Len(beforeResults) > 0 /\ Len(afterResults) > 0
  IN [beforePhase |-> IF timed THEN <<phase(beforeResults)>> ELSE <<>>,
      afterPhase |-> IF timed THEN <<phase(afterResults)>> ELSE <<>>]

\* the options the capture command saves
CaptureOptions ==
  [waitStrategy |-> "load", width |-> 1920, height |-> 1080,
   timeout |-> 30000, maxRetries |-> 3, retryDelay |-> 2000]

\* where the record is saved: `${outputDir}/${safeTitle}-data.jsonc` for the default
\* title, a directory below the output directory, a directory beside it
DataFilePaths ==
  {<<<<"/">>, <<"out">>, <<"Report-data", ".jsonc">>>>,
   <<<<"/">>, <<"out">>, <<"data">>, <<"Report-data", ".jsonc">>>>,
   <<<<"/">>, <<"archive">>, <<"Report-data", ".jsonc">>>>}

\* the arguments of saveDataFile after a capture in mode single
singleCapture(urls, ok, dataFilePath) ==
  [reportData |-> captureReportData(takeScreenshots(urls, ok, "single"), "single", urls),
   dataFilePath |-> dataFilePath,
   options |-> CaptureOptions,
   beforePhase |-> <<>>,
   afterPhase |-> <<>>]

\* the arguments of saveDataFile after a capture with --before-after
beforeAfterCapture(urls, okBefore, okAfter, reads, pixelmatchOut, dataFilePath) ==
  LET beforeResults == takeScreenshots(urls, okBefore, "before")
      afterResults == takeScreenshots(urls, okAfter, "after")
      allResults == mergeBeforeAfterResultsWithComparison(
                      beforeResults, afterResults, CaptureComparisonOptions,
                      reads, pixelmatchOut).merged
      timing == phaseTiming(beforeResults, afterResults)
  IN [reportData |-> captureReportData(allResults, "before-after", urls),
      dataFilePath |-> dataFilePath,
      options |-> CaptureOptions,
      beforePhase |-> timing.beforePhase,
      afterPhase |-> timing.afterPhase]

Captures ==
  UNION {
    {singleCapture(urls, ok, path) :
       urls \in [1..n -> Urls], ok \in [1..n -> BOOLEAN], path \in DataFilePaths}
    \cup
    {beforeAfterCapture(urls, c[1], c[2], c[3], c[4], path) :
       urls \in [1..n -> Urls],
       c \in [1..n -> BOOLEAN] \X [1..n -> BOOLEAN] \X Reads \X (0..1),
       path \in DataFilePaths}
    : n \in 0..MaxResults}

InitStore ==
  /\ pc = "save"
  /\ IdleShot
  /\ IdleRun
  /\ IdleClassify
  /\ IdleCompare
  /\ IdleMerge
  /\ storeIn \in Captures
  /\ recordFile = <<>>
  /\ loaded = <<>>
  /\ resolved = <<>>
  /\ diffFiles = {}

\* await DataPersistence.saveDataFile(reportData, filenames.dataFile, ...)
Save ==
  /\ pc = "save"
  /\ recordFile' = writeFile(recordFile,
                             saveDataFile(storeIn.reportData, storeIn.dataFilePath,
                                          storeIn.options, storeIn.beforePhase,
                                          storeIn.afterPhase))
  /\ pc' = "saved"
  /\ UNCHANGED <<runVars, shotVars, clsVars, cmpVars, mergeVars, storeIn, loaded, resolved, diffFiles>>

\* DataPersistence.loadDataFile(filenames.dataFile): returns or throws
Load ==
  /\ pc = "saved"
  /\ loaded' = <<loadDataFile(recordFile)>>
  /\ pc' = "loaded"
  /\ UNCHANGED <<runVars, shotVars, clsVars, cmpVars, mergeVars, storeIn, recordFile, resolved, diffFiles>>

\* DataPersistence.resolveImagePaths(dataFile, filenames.dataFile), reached only
\* when the load returned
Resolve ==
  /\ pc = "loaded"
  /\ loaded[1].ok
  /\ resolved' = <<resolveImagePaths(loaded[1].dataFile[1], storeIn.dataFilePath)>>
  /\ loaded' = <<[loaded[1] EXCEPT !.dataFile =
                    <<resolveImagePathsArgument(loaded[1].dataFile[1], storeIn.dataFilePath)>>]>>
  /\ pc' = "resolved"
  /\ UNCHANGED <<runVars, shotVars, clsVars, cmpVars, mergeVars, storeIn, recordFile, diffFiles>>

NextStore == Save \/ Load \/ Resolve

SpecStore == InitStore /\ [][NextStore]_vars

---------------------------------------------------------------------------
(* The record store: what the claims speak of *)

Saved == storeIn.reportData.results

\* the load of the record just saved returned a data file
LoadReturned == pc \in {"loaded", "resolved"} /\ loaded[1].ok

LoadThrew == pc = "loaded" /\ ~loaded[1].ok

DiffImagePathOf(result) ==
  IF result.comparison = <<>> THEN NoPath ELSE result.comparison[1].diffImagePath

\* result i, resolved, points at the files result i pointed at when saved
SamePaths(i) ==
  /\ resolved[1].results[i].singlePath = Saved[i].singlePath
  /\ resolved[1].results[i].beforePath = Saved[i].beforePath
  /\ resolved[1].results[i].afterPath = Saved[i].afterPath
  /\ DiffImagePathOf(resolved[1].results[i]) = DiffImagePathOf(Saved[i])

\* C10: resolvePaths(load(path), path) right after save(data, path) gives, for every
\* result, the absolute singlePath, beforePath, afterPath and comparison.diffImagePath
\* that were passed to save, and leaves an absent path absent: the load returns, and
\* the resolved paths are the saved ones.
C10_PathsRoundTrip ==
  /\ pc = "loaded" => loaded[1].ok
  /\ pc = "resolved" =>
       /\ Len(resolved[1].results) = Len(Saved)
       /\ \A i \in 1..Len(Saved) : SamePaths(i)

\* C11: every record written by save after a capture run, in either mode, results
\* with an error and without a path included, can be loaded again: the load parses,
\* validates and returns.
C11_SavedRecordLoads == pc \in {"loaded", "resolved"} => loaded[1].ok

Loaded == loaded[1].dataFile[1].results

\* the error of saved result i is in loaded result i, with the same text
SameError(i) ==
  /\ Saved[i].error # NoError =>
       Saved[i].error \in {Loaded[i].error, Loaded[i].beforeError, Loaded[i].afterError}
  /\ Saved[i].error = NoError =>
       Loaded[i].error = NoError /\ Loaded[i].beforeError = NoError /\ Loaded[i].afterError = NoError

\* C12: the record is lossless on data: the load of a saved record gives, for every
\* result, the error message it had when saved, in both modes, and a success flag
\* that is false exactly when it had an error.
C12_ErrorsSurviveSaveLoad ==
  pc \in {"loaded", "resolved"} =>
    /\ loaded[1].ok
    /\ Len(Loaded) = Len(Saved)
    /\ \A i \in 1..Len(Saved) :
         /\ SameError(i)
         /\ Loaded[i].success = (Saved[i].error = NoError)

---------------------------------------------------------------------------
(* Loading a record written by another hand: any JSON object, the keys the *)
(* validation looks at missing or present.                                 *)

MaxRecordResults == 2

RecordPath == <<<<"/">>, <<"out">>, <<"Report-data", ".jsonc">>>>

\* one element of results: url and the paths missing or present, success a boolean
RecordResults ==
  [url : {"", "https://example.com"},
   singlePath : {NoPath, <<<<"screenshots">>, <<"example.com", ".png">>>>},
   beforePath : {NoPath, <<<<"screenshots">>, <<"example.com", "_before", ".png">>>>},
   afterPath : {NoPath, <<<<"screenshots">>, <<"example.com", "_after", ".png">>>>},
   success : BOOLEAN,
   comparison : {<<>>}]

RecordMetadata ==
  {<<>>} \cup {<<[version |-> v, mode |-> m]>> :
                 v \in {"", "1.0.0"}, m \in {"", "single", "before-after", "triple"}}

\* the values JSON.parse can give for the record
RecordValues ==
  {[metadata |-> md, resultsKind |-> k, results |-> <<>>] :
     md \in RecordMetadata, k \in {"absent", "object"}}
  \cup UNION {[metadata : RecordMetadata, resultsKind : {"array"},
               results : [1..n -> RecordResults]] : n \in 0..MaxRecordResults}

\* the file at the path: none, a text JSON.parse rejects, or the text of a value
RecordFiles ==
  {<<>>}
  \cup {<<[comments |-> TRUE, shape |-> "json", wellFormed |-> FALSE, value |-> <<>>]>>}
  \cup {<<[comments |-> TRUE, shape |-> "json", wellFormed |-> TRUE, value |-> v]>> :
          v \in RecordValues}

InitValidate ==
  /\ pc = "stored"
  /\ IdleShot
  /\ IdleRun
  /\ IdleClassify
  /\ IdleCompare
  /\ IdleMerge
  /\ storeIn = <<>>
  /\ recordFile \in RecordFiles
  /\ loaded = <<>>
  /\ resolved = <<>>
  /\ diffFiles = {}

\* DataPersistence.loadDataFile(dataFilePath): returns or throws
LoadRecord ==
  /\ pc = "stored"
  /\ loaded' = <<loadDataFile(recordFile)>>
  /\ pc' = "loaded"
  /\ UNCHANGED <<runVars, shotVars, clsVars, cmpVars, mergeVars, storeIn, recordFile, resolved, diffFiles>>

\* DataPersistence.resolveImagePaths(dataFile, dataFilePath) on what the load returned
ResolveRecord ==
  /\ pc = "loaded"
  /\ loaded[1].ok
  /\ resolved' = <<resolveImagePaths(loaded[1].dataFile[1], RecordPath)>>
  /\ loaded' = <<[loaded[1] EXCEPT !.dataFile =
                    <<resolveImagePathsArgument(loaded[1].dataFile[1], RecordPath)>>]>>
  /\ pc' = "resolved"
  /\ UNCHANGED <<runVars, shotVars, clsVars, cmpVars, mergeVars, storeIn, recordFile, diffFiles>>

NextValidate == LoadRecord \/ ResolveRecord

SpecValidate == InitValidate /\ [][NextValidate]_vars

---------------------------------------------------------------------------
(* Loading a record: what the claims speak of *)

\* the value in the file, when the file holds one
Record == recordFile[1].value

HoldsRecord == recordFile # <<>> /\ recordFile[1].wellFormed

HasMode(m) == Record.metadata # <<>> /\ Record.metadata[1].mode = m

\* result i meets the requirements on a result
ResultValid(i) ==
  /\ Record.results[i].url # ""
  /\ (HasMode("single") /\ Record.results[i].success) => Record.results[i].singlePath # NoPath
  /\ (HasMode("before-after") /\ Record.results[i].success) =>
       Record.results[i].beforePath # NoPath \/ Record.results[i].afterPath # NoPath

RecordValid ==
  /\ Record.metadata # <<>>
  /\ Record.metadata[1].version # ""
  /\ HasMode("single") \/ HasMode("before-after")
  /\ Record.resultsKind = "array"
  /\ \A i \in 1..Len(Record.results) : ResultValid(i)

\* the field an error of the validation names
NamedField(error) ==
  CASE error.message = "Missing metadata" -> "metadata"
    [] error.message = "Missing version in metadata" -> "version"
    [] error.message = "Invalid or missing mode in metadata" -> "mode"
    [] error.message = "Missing or invalid results array" -> "results"
    [] error.message = "Missing URL in result" -> "url"
    [] error.message = "Missing singlePath in successful result" -> "singlePath"
    [] error.message = "Missing beforePath or afterPath in successful result" -> "beforePath, afterPath"
    [] OTHER -> "none"

\* the first requirement an invalid record violates, in the order of the claim
FirstViolatedField ==
  IF Record.metadata = <<>> THEN "metadata"
  ELSE IF Record.metadata[1].version = "" THEN "version"
  ELSE IF ~(HasMode("single") \/ HasMode("before-after")) THEN "mode"
  ELSE IF Record.resultsKind # "array" THEN "results"
  ELSE LET i == CHOOSE k \in 1..Len(Record.results) :
                  ~ResultValid(k) /\ \A j \in 1..(k - 1) : ResultValid(j)
       IN IF Record.results[i].url = "" THEN "url"
          ELSE IF HasMode("single") THEN "singlePath"
          ELSE "beforePath, afterPath"

\* C13: load returns a record only if metadata, version, a mode of the two, a results
\* array, a url in every result and, for every successful result, the path of its
\* mode are present; the record returned is the one in the file; otherwise load
\* returns nothing and its error names the first violated field.  Results with
\* success false need no path.
C13_LoadValidates ==
  pc \in {"loaded", "resolved"} =>
    /\ loaded[1].ok <=> (HoldsRecord /\ RecordValid)
    /\ loaded[1].ok => loaded[1].dataFile = <<Record>>
    /\ ~loaded[1].ok => loaded[1].dataFile = <<>>
    /\ (HoldsRecord /\ ~RecordValid) =>
         /\ NamedField(loaded[1].error) = FirstViolatedField
         /\ loaded[1].error.index =
              IF FirstViolatedField \in {"url", "singlePath", "beforePath, afterPath"}
              THEN (CHOOSE k \in 1..Len(Record.results) :
                      ~ResultValid(k) /\ \A j \in 1..(k - 1) : ResultValid(j)) - 1
              ELSE 0

\* a record with metadata and version but without mode was loaded: the load failed
\* with an error naming mode
C13_Witness ==
  /\ pc = "loaded"
  /\ HoldsRecord
  /\ Record.metadata # <<>>
  /\ Record.metadata[1].version # ""
  /\ Record.metadata[1].mode = ""
  /\ Record.resultsKind = "array"
  /\ Len(Record.results) = MaxRecordResults
  /\ ~loaded[1].ok
  /\ NamedField(loaded[1].error) = "mode"

---------------------------------------------------------------------------
(* batchCompare over a list of pairs.  Each pair is the before and the     *)
(* after screenshot of a URL; a file is missing or decodes to an image,    *)
(* the same at every place of the list where it occurs.                    *)

MaxPairs == 3

\* the pairs of one URL: what reading its two files gives and what pixelmatch counts
ImagePairs ==
  {[before |-> b, after |-> a, pixelmatchOut |-> d,
    beforePath |-> ScreenshotPath(OutputDir, u, "before"),
    afterPath |-> ScreenshotPath(OutputDir, u, "after")] :
     u \in Urls, b \in {<<>>, <<SmallImage>>}, a \in {<<>>, <<SmallImage>>, <<WideImage>>},
     d \in 0..1}

ImagePairLists ==
  UNION {{l \in [1..n -> ImagePairs] :
            /\ \A i \in 1..n : l[i].pixelmatchOut \in PixelmatchRange(l[i].before, l[i].after)
            /\ \A i, j \in 1..n : l[i].beforePath = l[j].beforePath => l[i] = l[j]}
         : n \in 0..MaxPairs}

BatchOptions ==
  {PartialOptions(<<>>, <<>>), PartialOptions(<<FALSE>>, <<>>), PartialOptions(<<>>, <<Num(0, 1)>>)}

InitBatch ==
  /\ pc = "batch"
  /\ IdleShot
  /\ IdleRun
  /\ IdleClassify
  /\ IdleMerge
  /\ IdleStore
  /\ cmpIn \in [imagePairs : ImagePairLists, options : BatchOptions]
  /\ cmpOut = <<>>
  /\ batchOut = <<>>
  /\ diffFiles = {}

\* comparator.batchCompare(imagePairs, options)
BatchComparePairs ==
  /\ pc = "batch"
  /\ LET r == batchCompare(cmpIn.imagePairs, cmpIn.options)
     IN /\ batchOut' = <<r.results>>
        /\ diffFiles' = diffFiles \cup r.wrote
  /\ pc' = "batched"
  /\ UNCHANGED <<runVars, shotVars, clsVars, mergeVars, storeVars, cmpIn, cmpOut>>

NextBatch == BatchComparePairs

SpecBatch == InitBatch /\ [][NextBatch]_vars

---------------------------------------------------------------------------
(* batchCompare: what the claims speak of *)

\* what compare gives for pair i alone
Alone(i) ==
  compareImages(cmpIn.imagePairs[i].before, cmpIn.imagePairs[i].after,
                cmpIn.imagePairs[i].pixelmatchOut, cmpIn.imagePairs[i].beforePath,
                cmpIn.options)

NeutralVerdict(v) ==
  /\ v.diffPixels = 0
  /\ EqNum(v.diffPercentage, Num(0, 1))
  /\ v.changeLevel = "none"
  /\ v.hasSignificantChange = FALSE
  /\ v.diffImagePath = NoPath

\* C14: batchCompare over n pairs returns n verdicts in the order of the pairs;
\* verdict i is the neutral fallback when comparing pair i fails, and is what compare
\* returns for pair i alone otherwise.
C14_BatchIsolatesFailures ==
  pc = "batched" =>
    /\ Len(batchOut[1]) = Len(cmpIn.imagePairs)
    /\ \A i \in 1..Len(cmpIn.imagePairs) :
         IF Alone(i).threw THEN NeutralVerdict(batchOut[1][i])
         ELSE batchOut[1][i] = Alone(i).result[1]

\* three pairs were compared, the after file of the second missing: the second
\* verdict is the fallback, the first and the third report a difference
C14_Witness ==
  /\ pc = "batched"
  /\ Len(cmpIn.imagePairs) = 3
  /\ cmpIn.imagePairs[2].after = <<>>
  /\ cmpIn.imagePairs[2].before # <<>>
  /\ Len(batchOut[1]) = 3
  /\ NeutralVerdict(batchOut[1][2])
  /\ batchOut[1][1].diffPixels > 0
  /\ batchOut[1][3].diffPixels > 0

---------------------------------------------------------------------------
(* Saves over saves: the record of one path is saved again and again, each *)
(* time with the data of another capture run.  storeIn is the sequence of  *)
(* the arguments of the saves so far.                                      *)

MaxSaves == 2

\* the runs saved: those of at most one URL, saved at RecordPath
SaveArguments ==
  {c \in Captures : c.dataFilePath = RecordPath /\ Len(c.reportData.results) <= 1}

InitResave ==
  /\ pc = "resave"
  /\ IdleShot
  /\ IdleRun
  /\ IdleClassify
  /\ IdleCompare
  /\ IdleMerge
  /\ storeIn = <<>>
  /\ recordFile = <<>>
  /\ loaded = <<>>
  /\ resolved = <<>>
  /\ diffFiles = {}

\* await DataPersistence.saveDataFile(reportData, dataFilePath, ...), once more
SaveOver ==
  /\ pc = "resave"
  /\ Len(storeIn) < MaxSaves
  /\ \E c \in SaveArguments :
       /\ storeIn' = Append(storeIn, c)
       /\ recordFile' = writeFile(recordFile,
                                  saveDataFile(c.reportData, c.dataFilePath, c.options,
                                               c.beforePhase, c.afterPhase))
  /\ UNCHANGED <<runVars, shotVars, pc, clsVars, cmpVars, mergeVars, loaded, resolved, diffFiles>>

NextResave == SaveOver

SpecResave == InitResave /\ [][NextResave]_vars

---------------------------------------------------------------------------
(* Saves over saves: what the claims speak of *)

LastSave == storeIn[Len(storeIn)]

HasComparison(result) == result.comparison # <<>>

\* C15: after any sequence of saves to one path the file is what the last save
\* alone writes: it holds the results of the last save, one for one, a comparison
\* block only for a result of the last save that has one, and the metadata of the
\* last save; nothing of an earlier save is left.
C15_SaveReplacesFile ==
  (pc = "resave" /\ storeIn # <<>>) =>
    /\ recordFile = <<saveDataFile(LastSave.reportData, LastSave.dataFilePath, LastSave.options,
                                   LastSave.beforePhase, LastSave.afterPhase)>>
    /\ Len(recordFile[1].results) = Len(LastSave.reportData.results)
    /\ \A i \in 1..Len(LastSave.reportData.results) :
         /\ recordFile[1].results[i].url = LastSave.reportData.results[i].url
         /\ recordFile[1].shape = "before-after" =>
              (HasComparison(recordFile[1].results[i])
                 <=> HasComparison(LastSave.reportData.results[i]))
    /\ recordFile[1].metadata.mode = LastSave.reportData.mode
    /\ recordFile[1].metadata.totalUrls = LastSave.reportData.totalUrls
    /\ (recordFile[1].metadata.phases # <<>>) <=> (LastSave.beforePhase # <<>>)

\* a run with a compared result was saved, then an empty run in mode single: the
\* file holds no result and no phase timing
C15_Witness ==
  /\ pc = "resave"
  /\ Len(storeIn) = 2
  /\ Len(storeIn[1].reportData.results) = 1
  /\ HasComparison(storeIn[1].reportData.results[1])
  /\ storeIn[1].beforePhase # <<>>
  /\ storeIn[2].reportData.mode = "single"
  /\ storeIn[2].reportData.results = <<>>
  /\ recordFile # <<>>
  /\ recordFile[1].results = <<>>
  /\ recordFile[1].metadata.phases = <<>>

---------------------------------------------------------------------------
(* resolveImagePaths on a loaded record.  The paths of the record are      *)
(* relative to its directory, lead out of it, or are absolute; a           *)
(* comparison block has a diff image or none.                              *)

MaxResolveResults == 2

ScreenshotsDir == <<"screenshots">>

\* the comparison blocks of a result: none, one without and one with a diff image
ResolvableComparisons ==
  {<<>>}
  \cup {<<[diffPixels |-> 1, totalPixels |-> 1, diffPercentage |-> Num(100, 1),
           changeLevel |-> "extreme", hasSignificantChange |-> TRUE, diffImagePath |-> d]>> :
          d \in {NoPath, <<ScreenshotsDir, <<"example.com", "_before", "_diff", ".png">>>>}}

ResolvableResults ==
  [url : Urls,
   singlePath : {NoPath, <<ScreenshotsDir, <<"example.com", ".png">>>>},
   beforePath : {NoPath, <<<<"..">>, ScreenshotsDir, <<"example.com", "_before", ".png">>>>},
   afterPath : {NoPath, <<<<"/">>, <<"out">>, ScreenshotsDir, <<"example.com", "_after", ".png">>>>},
   success : {TRUE},
   comparison : ResolvableComparisons]

ResolvableRecords ==
  UNION {[metadata : {<<[version |-> "1.0.0", mode |-> "before-after"]>>},
          resultsKind : {"array"},
          results : [1..n -> ResolvableResults]] : n \in 0..MaxResolveResults}

InitResolve ==
  /\ pc = "loaded"
  /\ IdleShot
  /\ IdleRun
  /\ IdleClassify
  /\ IdleCompare
  /\ IdleMerge
  /\ storeIn \in [dataFilePath : DataFilePaths]
  /\ recordFile = <<>>
  /\ loaded \in {<<[ok |-> TRUE, dataFile |-> <<d>>, error |-> NoViolation]>> :
                   d \in ResolvableRecords}
  /\ resolved = <<>>
  /\ diffFiles = {}

NextResolve == Resolve

SpecResolve == InitResolve /\ [][NextResolve]_vars

---------------------------------------------------------------------------
(* resolveImagePaths: what the claims speak of *)

\* out is the path p of a record in directory baseDir, made absolute: p itself when
\* absolute, else the absolute path that p leads to from baseDir
AbsoluteUnder(baseDir, p, out) ==
  IF p = NoPath THEN out = NoPath
  ELSE /\ IsAbsolute(out)
       /\ IF IsAbsolute(p) THEN out = p ELSE relative(baseDir, out) = p

\* result out is result in with its paths made absolute, all else equal
ResolvedResult(baseDir, in, out) ==
  /\ out.url = in.url
  /\ out.success = in.success
  /\ AbsoluteUnder(baseDir, in.singlePath, out.singlePath)
  /\ AbsoluteUnder(baseDir, in.beforePath, out.beforePath)
  /\ AbsoluteUnder(baseDir, in.afterPath, out.afterPath)
  /\ (out.comparison = <<>>) <=> (in.comparison = <<>>)
  /\ in.comparison # <<>> =>
       /\ AbsoluteUnder(baseDir, in.comparison[1].diffImagePath, out.comparison[1].diffImagePath)
       /\ [out.comparison[1] EXCEPT !.diffImagePath = NoPath]
            = [in.comparison[1] EXCEPT !.diffImagePath = NoPath]

\* C16: resolveImagePaths returns a record whose paths are absolute under the
\* directory of the record path, with the metadata, the urls, the order and every
\* field that is not a path equal to those of the record passed in; it leaves the
\* record passed in as it was and reads or writes no file.
C16_ResolveIsPure ==
  [][(pc = "loaded" /\ pc' = "resolved") =>
       /\ loaded' = loaded
       /\ recordFile' = recordFile
       /\ diffFiles' = diffFiles
       /\ resolved'[1].metadata = loaded[1].dataFile[1].metadata
       /\ Len(resolved'[1].results) = Len(loaded[1].dataFile[1].results)
       /\ \A i \in 1..Len(loaded[1].dataFile[1].results) :
            ResolvedResult(dirname(storeIn.dataFilePath),
                           loaded[1].dataFile[1].results[i], resolved'[1].results[i])]_vars

\* a record of two results was resolved: the first has a relative path leading out
\* of the directory of the record and a diff image, the second has no before path
C16_Witness ==
  /\ pc = "resolved"
  /\ Len(resolved[1].results) = 2
  /\ loaded[1].dataFile[1].results[1].beforePath # NoPath
  /\ ~IsAbsolute(loaded[1].dataFile[1].results[1].beforePath)
  /\ IsAbsolute(resolved[1].results[1].beforePath)
  /\ resolved[1].results[1].comparison # <<>>
  /\ IsAbsolute(resolved[1].results[1].comparison[1].diffImagePath)
  /\ resolved[1].results[2].beforePath = NoPath
  /\ resolved[1].results[1].url # resolved[1].results[2].url

---------------------------------------------------------------------------
(* The options of compare: what the claims speak of *)

DocumentedDefaults ==
  [threshold |-> Num(1, 10),
   minChangeThreshold |-> Num(5, 10),
   generateDiffImage |-> TRUE,
   ignoreAntialiasing |-> FALSE]

\* the value option k has by the documentation: the one passed, else the default
DocumentedOption(k) ==
  IF k \in DOMAIN cmpIn.options THEN cmpIn.options[k] ELSE DocumentedDefaults[k]

\* C17: an option left out of a call of compare takes its documented default
\* (threshold 0.1, minChangeThreshold 0.5, generateDiffImage true,
\* ignoreAntialiasing false) and an option passed overrides it: the options in
\* force are the documented ones, and the verdict on images of equal dimensions is
\* significant exactly from the documented minChangeThreshold on, with a diff image
\* only when the documented generateDiffImage is true.
C17_DocumentedDefaultsApply ==
  Returned =>
    /\ EqNum(Opts.threshold, DocumentedOption("threshold"))
    /\ EqNum(Opts.minChangeThreshold, DocumentedOption("minChangeThreshold"))
    /\ Opts.generateDiffImage = DocumentedOption("generateDiffImage")
    /\ Opts.ignoreAntialiasing = DocumentedOption("ignoreAntialiasing")
    /\ EqualDimensions =>
         /\ Verdict.hasSignificantChange
              <=> Ge(Unrounded, DocumentedOption("minChangeThreshold"))
         /\ ~DocumentedOption("generateDiffImage") => Verdict.diffImagePath = NoPath

---------------------------------------------------------------------------
(* The phase timing of a capture with --before-after: the before and the   *)
(* after run each gave a list of outcomes, stamped in milliseconds.        *)

MaxBatch == 2

\* timestamps, in ms: around one second, one minute, two minutes and one hour
Timestamps == {0, 999, 1000, 59999, 60000, 125000, 3725000}

TimedOutcomes(mode) ==
  UNION {{[i \in 1..n |->
             ScreenshotResult("https://example.com", mode,
                              ScreenshotPath(OutputDir, "https://example.com", mode),
                              NoError, t[i])] : t \in [1..n -> Timestamps]}
         : n \in 0..MaxBatch}

InitPhase ==
  /\ pc = "timing"
  /\ IdleShot
  /\ IdleRun
  /\ IdleClassify
  /\ IdleCompare
  /\ mergeIn \in [beforeResults : TimedOutcomes("before"), afterResults : TimedOutcomes("after")]
  /\ mergeOut = <<>>
  /\ compareCalls = <<>>
  /\ IdleStore
  /\ diffFiles = {}

\* the capture command computes beforePhase and afterPhase for saveDataFile
PhaseTiming ==
  /\ pc = "timing"
  /\ storeIn' = phaseTiming(mergeIn.beforeResults, mergeIn.afterResults)
  /\ pc' = "timed"
  /\ UNCHANGED <<runVars, shotVars, clsVars, cmpVars, mergeVars, recordFile, loaded, resolved, diffFiles>>

NextPhase == PhaseTiming

SpecPhase == InitPhase /\ [][NextPhase]_vars

---------------------------------------------------------------------------
(* Phase timing: what the claims speak of *)

TimesOf(results) == {results[i].timestamp : i \in 1..Len(results)}

\* text is the documented duration string for d ms: minutes m and seconds s with
\* m minutes + s seconds <= d < m minutes + s + 1 seconds and s < 60, the minutes
\* left out when d is under a minute
DurationOf(d, text) ==
  /\ text.seconds \in 0..59
  /\ IF d >= 60000
     THEN /\ text.minutes # <<>>
          /\ text.minutes[1] >= 1
          /\ text.minutes[1] * 60000 + text.seconds * 1000 <= d
          /\ d < text.minutes[1] * 60000 + (text.seconds + 1) * 1000
     ELSE /\ text.minutes = <<>>
          /\ text.seconds * 1000 <= d
          /\ d < (text.seconds + 1) * 1000

\* p is the timing of the outcomes results
TimingOf(results, p) ==
  /\ p.startTime \in TimesOf(results)
  /\ p.endTime \in TimesOf(results)
  /\ \A t \in TimesOf(results) : p.startTime <= t /\ t <= p.endTime
  /\ p.startTime <= p.endTime
  /\ DurationOf(p.endTime - p.startTime, p.duration)

\* C18: for non-empty before and after runs, startTime is the least and endTime the
\* greatest timestamp of the run, each run timed by itself, and the duration is
\* minutes and seconds from a minute on, with the seconds under 60, and seconds alone
\* below a minute.
C18_PhaseTiming ==
  (pc = "timed" /\ mergeIn.beforeResults # <<>> /\ mergeIn.afterResults # <<>>) =>
    /\ storeIn.beforePhase # <<>>
    /\ storeIn.afterPhase # <<>>
    /\ TimingOf(mergeIn.beforeResults, storeIn.beforePhase[1])
    /\ TimingOf(mergeIn.afterResults, storeIn.afterPhase[1])

\* the before run took over two minutes, its outcomes not in the order of their
\* timestamps, and the after run under a minute
C18_Witness ==
  /\ pc = "timed"
  /\ Len(mergeIn.beforeResults) = 2
  /\ mergeIn.beforeResults[1].timestamp > mergeIn.beforeResults[2].timestamp
  /\ storeIn.beforePhase # <<>>
  /\ storeIn.beforePhase[1].duration = [minutes |-> <<2>>, seconds |-> 5]
  /\ storeIn.afterPhase[1].duration.minutes = <<>>
  /\ storeIn.afterPhase[1].duration.seconds = 59

---------------------------------------------------------------------------
(* A record in mode single with one result, written character by           *)
(* character, stripped of its comments and parsed.  The url and the error  *)
(* message are strings of a few characters, comment marks among them.      *)

MaxChars == 3

Key(name) == <<Quote, name, Quote, ":", Space>>

StringMember(name, value) == Key(name) \o <<Quote>> \o value \o <<Quote>>

\* the lines generateJSONCContent writes for the results in mode single, for one
\* result: its comment line, the block of the result and the closing bracket.
\* r.url and r.error[1] are sequences of tokens.
singleResultLines(r) ==
  <<<<Space, "//", "Screenshot results - one entry per URL">>,
    <<Space, Quote, "results", Quote, ":", Space, "[">>,
    <<Space, "{">>,
    <<Space>> \o StringMember("url", r.url) \o <<",">>,
    <<Space>> \o StringMember("timestamp", <<r.timestamp>>) \o <<",">>,
    <<Space>> \o StringMember("singlePath", <<r.singlePath>>)
      \o <<",", Space, Space, "//", "Relative path to screenshot">>,
    <<Space>> \o Key("success") \o <<r.success>> \o (IF r.error # <<>> THEN <<",">> ELSE <<>>)>>
  \o (IF r.error # <<>>
      THEN <<<<Space>> \o StringMember("error", r.error[1])
               \o <<Space, Space, "//", "Error message if failed">>>>
      ELSE <<>>)
  \o <<<<Space, "}">>, <<Space, "]">>>>

\* the line without the white space at its ends
RECURSIVE Trim(_)
Trim(line) ==
  IF line = <<>> THEN line
  ELSE IF Head(line) = Space THEN Trim(Tail(line))
  ELSE IF line[Len(line)] = Space THEN Trim(SubSeq(line, 1, Len(line) - 1))
  ELSE line

\* the index of the quote that closes the string opened at index open, 0 for none
ClosingQuote(line, open) ==
  LET quotes == {c \in (open + 1)..Len(line) : line[c] = Quote}
  IN IF quotes = {} THEN 0 ELSE CHOOSE c \in quotes : \A d \in quotes : c <= d

\* "name": "value" or "name": literal, with a comma unless it is the last member
IsMember(line, last) ==
  /\ Len(line) >= 6
  /\ line[1] = Quote /\ line[3] = Quote /\ line[4] = ":" /\ line[5] = Space
  /\ LET c == IF line[6] = Quote THEN ClosingQuote(line, 6) ELSE 6
     IN /\ c > 0
        /\ line[6] = Quote \/ line[6] \in {"true", "false"}
        /\ SubSeq(line, c + 1, Len(line)) = IF last THEN <<>> ELSE <<",">>

MemberName(line) == line[2]

\* the string of a member, <<>> standing for a literal
MemberString(line) ==
  IF line[6] = Quote THEN <<SubSeq(line, 7, ClosingQuote(line, 6) - 1)>> ELSE <<>>

\* JSON.parse of the lines of the results: the lines that are not blank are
\* "results": [ then { then the members then } then ]
parseResultLines(text) ==
  LET all == SplitLines(text)
      trimmed == [i \in 1..Len(all) |-> Trim(all[i])]
      lines == SelectSeq(trimmed, LAMBDA l : l # <<>>)
      n == Len(lines)
      wellFormed ==
        /\ n >= 4
        /\ lines[1] = <<Quote, "results", Quote, ":", Space, "[">>
        /\ lines[2] = <<"{">>
        /\ lines[n - 1] = <<"}">>
        /\ lines[n] = <<"]">>
        /\ \A i \in 3..(n - 2) : IsMember(lines[i], i = n - 2)
      valueOf(name) ==
        LET at == {i \in 3..(n - 2) : MemberName(lines[i]) = name /\ lines[i][6] = Quote}
        IN IF at = {} THEN <<>>
           ELSE MemberString(lines[CHOOSE i \in at : \A k \in at : k <= i])
  IN IF wellFormed
     THEN [ok |-> TRUE, url |-> valueOf("url"), error |-> valueOf("error")]
     ELSE [ok |-> FALSE, url |-> <<>>, error |-> <<>>]

\* the characters of a string
Chars == {"x", Space, "//", "/*", "*/"}

Strings == UNION {[1..n -> Chars] : n \in 0..MaxChars}

UrlStrings ==
  {<<"https:", "//", "example.com">>, <<"https:", "//", "example.com", "/*">>}

InitStrip ==
  /\ pc = "write"
  /\ IdleShot
  /\ IdleRun
  /\ IdleClassify
  /\ IdleCompare
  /\ IdleMerge
  /\ storeIn \in [url : UrlStrings, error : Strings]
  /\ recordFile = <<>>
  /\ loaded = <<>>
  /\ resolved = <<>>
  /\ diffFiles = {}

\* saveDataFile writes the record of the one result: an error that is the empty
\* string is not written
WriteText ==
  /\ pc = "write"
  /\ recordFile' =
       writeFile(recordFile,
                 [comments |-> TRUE,
                  shape |-> "text",
                  text |-> JoinLines(singleResultLines(
                             [url |-> storeIn.url,
                              timestamp |-> "2026-01-01T00:00:00.000Z",
                              singlePath |-> "undefined",
                              success |-> BoolText(<<storeIn.error = <<>>>>),
                              error |-> IF storeIn.error # <<>> THEN <<storeIn.error>>
                                        ELSE <<>>]))])
  /\ pc' = "written"
  /\ UNCHANGED <<runVars, shotVars, clsVars, cmpVars, mergeVars, storeIn, loaded, resolved, diffFiles>>

\* loadDataFile: stripJSONComments(content), then JSON.parse
StripAndParse ==
  /\ pc = "written"
  /\ loaded' = <<parseResultLines(stripJSONComments(recordFile[1]).text)>>
  /\ pc' = "parsed"
  /\ UNCHANGED <<runVars, shotVars, clsVars, cmpVars, mergeVars, storeIn, recordFile, resolved, diffFiles>>

NextStrip == WriteText \/ StripAndParse

SpecStrip == InitStrip /\ [][NextStrip]_vars

---------------------------------------------------------------------------
(* Comment stripping: what the claims speak of *)

\* C19: stripping the comments leaves the strings of the record as they are, any
\* "//" or "/*" ... "*/" in them and what follows included: the text still parses,
\* and the url and the error message parsed are those written.
C19_StringsSurviveStripping ==
  pc = "parsed" =>
    /\ loaded[1].ok
    /\ loaded[1].url = <<storeIn.url>>
    /\ loaded[1].error = IF storeIn.error # <<>> THEN <<storeIn.error>> ELSE <<>>

---------------------------------------------------------------------------
(* takeScreenshot for one URL: the retry loop around page.goto, then the   *)
(* screenshot.  takeScreenshots pushes the result, or an error result when *)
(* takeScreenshot throws.                                                  *)

\* the greatest value of options.maxRetries
MaxRetriesOption == 3

DefaultMaxRetries == 3

\* options.maxRetries || 3, <<>> standing for an option left out
maxRetriesOf(options) ==
  IF options.maxRetries = <<>> \/ options.maxRetries = <<0>>
  THEN DefaultMaxRetries
  ELSE options.maxRetries[1]

\* messages of the errors page.goto and page.screenshot throw
GotoErrors ==
  {"page.goto: net::ERR_NAME_NOT_RESOLVED at https://example.com",
   "page.goto: net::ERR_CONNECTION_REFUSED at https://example.com",
   "page.goto: Timeout 30000ms exceeded.",
   "page.goto: net::ERR_CERT_AUTHORITY_INVALID at https://example.com"}

ScreenshotError == "page.screenshot: Target closed"

\* message.includes('net::ERR_NAME_NOT_RESOLVED') || ... || message.includes('Timeout')
isNetworkError(message) ==
  message \in {"page.goto: net::ERR_NAME_NOT_RESOLVED at https://example.com",
               "page.goto: net::ERR_CONNECTION_REFUSED at https://example.com",
               "page.goto: Timeout 30000ms exceeded."}

shouldRetry_AnyError(message, k, maxRetries) == k < maxRetries

\* if (isNetworkError && attempt < maxRetries)
shouldRetry(message, k, maxRetries) == isNetworkError(message) /\ k < maxRetries

InitRetry ==
  /\ pc = "goto"
  /\ IdleRun
  /\ IdleClassify
  /\ IdleCompare
  /\ IdleMerge
  /\ IdleStore
  /\ diffFiles = {}
  /\ shotIn \in [url : {"https://example.com"},
                 mode : {"single", "before", "after"},
                 options : [maxRetries : {<<>>} \cup {<<n>> : n \in 0..MaxRetriesOption}]]
  /\ attempt = 1
  /\ lastError = ""
  /\ attempts = <<>>
  /\ shotOut = <<>>

\* one turn of the loop in which page.goto returns: break
GotoSucceeds ==
  /\ pc = "goto"
  /\ attempt <= maxRetriesOf(shotIn.options)
  /\ attempts' = Append(attempts, "")
  /\ pc' = "navigated"
  /\ UNCHANGED <<runVars, clsVars, cmpVars, mergeVars, storeVars, diffFiles, shotIn, attempt,
                 lastError, shotOut>>

\* one turn of the loop in which page.goto throws: the loop waits and goes on, or
\* the error is thrown and takeScreenshots pushes an error result
GotoFails ==
  /\ pc = "goto"
  /\ attempt <= maxRetriesOf(shotIn.options)
  /\ \E message \in GotoErrors :
       /\ attempts' = Append(attempts, message)
       /\ lastError' = message
       /\ IF shouldRetry(message, attempt, maxRetriesOf(shotIn.options))
          THEN /\ pc' = "delay"
               /\ shotOut' = shotOut
          ELSE /\ pc' = "done"
               /\ shotOut' = <<ScreenshotResult(shotIn.url, shotIn.mode, NoPath, message,
                                                Len(attempts) + 1)>>
  /\ UNCHANGED <<runVars, clsVars, cmpVars, mergeVars, storeVars, diffFiles, shotIn, attempt>>

\* await new Promise(resolve => setTimeout(resolve, retryDelay)); continue
RetryDelay ==
  /\ pc = "delay"
  /\ attempt' = attempt + 1
  /\ pc' = "goto"
  /\ UNCHANGED <<runVars, clsVars, cmpVars, mergeVars, storeVars, diffFiles, shotIn, lastError,
                 attempts, shotOut>>

\* after the loop: the screenshot is taken and the result returned, or
\* page.screenshot throws
Capture ==
  /\ pc = "navigated"
  /\ \E ok \in BOOLEAN :
       shotOut' = <<ScreenshotResult(
                      shotIn.url, shotIn.mode,
                      IF ok THEN ScreenshotPath(OutputDir, shotIn.url, shotIn.mode) ELSE NoPath,
                      IF ok THEN NoError ELSE ScreenshotError,
                      Len(attempts) + 1)>>
  /\ pc' = "done"
  /\ UNCHANGED <<runVars, clsVars, cmpVars, mergeVars, storeVars, diffFiles, shotIn, attempt,
                 lastError, attempts>>

NextRetry == GotoSucceeds \/ GotoFails \/ RetryDelay \/ Capture

SpecRetry == InitRetry /\ [][NextRetry]_vars

---------------------------------------------------------------------------
(* The retry loop: what the claims speak of *)

\* maxRetries as configured, for a configuration of at least 1
Configured == shotIn.options.maxRetries[1]

ConfiguredRetries == shotIn.options.maxRetries # <<>> /\ Configured >= 1

NetworkError(outcome) ==
  outcome \in {"page.goto: net::ERR_NAME_NOT_RESOLVED at https://example.com",
               "page.goto: net::ERR_CONNECTION_REFUSED at https://example.com",
               "page.goto: Timeout 30000ms exceeded."}

Succeeded(outcome) == outcome = ""

LoopEnded == pc \in {"navigated", "done"}

LastAttempt == attempts[Len(attempts)]

---------------------------------------------------------------------------
(* Merge with repeated URLs: what the claims speak of *)

\* the indexes of the after outcomes that are the first of their url in the list
FirstOfUrl ==
  {k \in 1..Len(mergeIn.afterResults) :
     \A j \in 1..(k - 1) : mergeIn.afterResults[j].url # mergeIn.afterResults[k].url}

BeforeUrls == {mergeIn.beforeResults[i].url : i \in 1..Len(mergeIn.beforeResults)}

\* merged result i has what after outcome k brought: its path and, the before outcome
\* having no error, its error
TakenFrom(i, k) ==
  /\ Merged[i].url = mergeIn.afterResults[k].url
  /\ Merged[i].afterPath = mergeIn.afterResults[k].afterPath
  /\ mergeIn.beforeResults[i].error = NoError =>
       Merged[i].error = mergeIn.afterResults[k].error

\* C21: before outcomes of one url are all paired with one after outcome, the first of
\* that url in the after list; an after outcome that is not the first of its url, or
\* whose url no before outcome has, is in no merged result.
C21_DuplicatesPairWithFirst ==
  pc = "merged" =>
    /\ \A i, j \in 1..Len(Merged) :
         mergeIn.beforeResults[i].url = mergeIn.beforeResults[j].url =>
           /\ Merged[i].afterPath = Merged[j].afterPath
           /\ FirstMatch(i) = FirstMatch(j)
           /\ \A k \in FirstOfUrl :
                mergeIn.afterResults[k].url = Merged[i].url => TakenFrom(i, k) /\ TakenFrom(j, k)
    /\ \A k \in 1..Len(mergeIn.afterResults) :
         /\ mergeIn.afterResults[k].url \notin BeforeUrls =>
              \A i \in 1..Len(Merged) : Merged[i].url # mergeIn.afterResults[k].url
         /\ k \notin FirstOfUrl =>
              \A i \in 1..Len(Merged), f \in FirstOfUrl :
                (/\ mergeIn.afterResults[f].url = mergeIn.afterResults[k].url
                 /\ mergeIn.afterResults[f].afterPath # mergeIn.afterResults[k].afterPath
                 /\ mergeIn.beforeResults[i].error = NoError)
                  => ~TakenFrom(i, k)

\* two before outcomes of one url, both captured, and two after outcomes of that url,
\* the first failed and the second captured: both merged results have the error of
\* the first and no after path
C21_Witness ==
  /\ pc = "merged"
  /\ Len(Merged) = 2
  /\ Merged[1].url = Merged[2].url
  /\ Merged[1].beforePath # NoPath
  /\ Merged[2].beforePath # NoPath
  /\ Len(mergeIn.afterResults) = 2
  /\ mergeIn.afterResults[1].url = Merged[1].url
  /\ mergeIn.afterResults[2].url = Merged[1].url
  /\ mergeIn.afterResults[1].afterPath = NoPath
  /\ mergeIn.afterResults[2].afterPath # NoPath
  /\ Merged[1].afterPath = NoPath
  /\ Merged[2].afterPath = NoPath
  /\ Merged[1].error = AfterError
  /\ Merged[2].error = AfterError

---------------------------------------------------------------------------
(* The number of characters generateJSONCContent writes: the characters of *)
(* the template (counted in the source, white space and comments included) *)
(* and those of each `${...}`.  An ISO timestamp has 24 characters.        *)

RECURSIVE Digits(_)
Digits(n) == IF n < 10 THEN 1 ELSE 1 + Digits(n \div 10)

\* `${x}` for a number with at most two decimals, given as a rational
DecimalLength(x) ==
  LET hundredths == (x.n * 100) \div x.d
      fraction == hundredths % 100
  IN Digits(hundredths \div 100)
     + (IF fraction = 0 THEN 0 ELSE IF fraction % 10 = 0 THEN 2 ELSE 3)

RECURSIVE SegmentLength(_)
SegmentLength(segment) ==
  IF segment = <<>> THEN 0 ELSE Len(Head(segment)) + SegmentLength(Tail(segment))

\* the segments and a separator between each two
RECURSIVE SegmentsLength(_)
SegmentsLength(p) ==
  IF p = <<>> THEN 0
  ELSE SegmentLength(Head(p)) + (IF Len(p) > 1 THEN 1 + SegmentsLength(Tail(p)) ELSE 0)

PathLength(p) == IF IsAbsolute(p) THEN 1 + SegmentsLength(Tail(p)) ELSE SegmentsLength(p)

TimeLength(t) == IF "iso" \in DOMAIN t THEN 24 ELSE Len(t.text)

\* `${minutes}m ${seconds % 60}s` or `${seconds}s`
DurationLength(d) ==
  IF d.minutes # <<>> THEN Digits(d.minutes[1]) + 2 + Digits(d.seconds) + 1
  ELSE Digits(d.seconds) + 1

\* from the opening brace to `"results": [`, and the closing `]` and brace
FrameLength(content) ==
  LET md == content.metadata
  IN (IF content.shape = "single" THEN 904 ELSE 893)
     + Len(md.version) + Len(md.mode) + 24 + 24
     + Digits(md.totalUrls) + Digits(md.successCount) + Digits(md.errorCount)
     + Len(md.options.waitStrategy) + Digits(md.options.width) + Digits(md.options.height)
     + Digits(md.options.timeout) + Digits(md.options.maxRetries)
     + Digits(md.options.retryDelay)
     + (IF md.phases = <<>> THEN 0
        ELSE 255 + 24 + 24 + DurationLength(md.phases[1].beforePhase.duration)
                 + 24 + 24 + DurationLength(md.phases[1].afterPhase.duration))

SingleResultLength(r) ==
  128 + Len(r.url) + TimeLength(r.timestamp) + PathLength(r.singlePath) + Len(r.success)
  + (IF r.error = <<>> THEN 0 ELSE 47 + Len(r.error[1]))

ComparisonLength(c) ==
  168 + Digits(c.diffPixels) + Digits(c.totalPixels) + DecimalLength(c.diffPercentage)
  + Len(c.changeLevel) + Len(c.hasSignificantChange)
  + (IF c.diffImagePath = <<>> THEN 0 ELSE 61 + PathLength(c.diffImagePath[1]))

BeforeAfterResultLength(r) ==
  338 + Len(r.url) + TimeLength(r.beforeTimestamp) + TimeLength(r.afterTimestamp)
  + PathLength(r.beforePath) + PathLength(r.afterPath)
  + Len(r.beforeSuccess) + Len(r.afterSuccess) + Len(r.success)
  + (IF r.beforeError # <<>> /\ r.afterError # <<>>
     THEN 78 + Len(r.beforeError[1]) + Len(r.afterError[1])
     ELSE IF r.beforeError # <<>> THEN 54 + Len(r.beforeError[1])
     ELSE IF r.afterError # <<>> THEN 53 + Len(r.afterError[1])
     ELSE 0)
  + (IF r.comparison = <<>> THEN 0 ELSE ComparisonLength(r.comparison[1]))

RECURSIVE ResultsLength(_, _)
ResultsLength(shape, results) ==
  IF results = <<>> THEN 0
  ELSE (IF shape = "single" THEN SingleResultLength(Head(results))
        ELSE BeforeAfterResultLength(Head(results)))
       + (IF Len(results) > 1 THEN 1 + ResultsLength(shape, Tail(results)) ELSE 0)

TextLength(content) == FrameLength(content) + ResultsLength(content.shape, content.results)

---------------------------------------------------------------------------
(* fs.promises.writeFile in two steps: the file is opened with flag 'w',   *)
(* which empties it, and the text is then written from position 0.  With   *)
(* one writer the two steps give writeFile; a second writer's text put in  *)
(* between stays behind the end of a shorter text.  A file that is not the *)
(* whole text of one writer is a text JSON.parse rejects.                  *)

\* the characters in the file
FileLength(file) ==
  IF file = <<>> THEN 0
  ELSE IF file[1].shape = "json" THEN file[1].length
  ELSE TextLength(file[1])

\* a file holding `written` (<<>> or <<a text>>) from position 0 and `length` characters in all
Garbled(written, length) ==
  [comments |-> FALSE, shape |-> "json", wellFormed |-> FALSE, value |-> <<>>,
   written |-> written, length |-> length]

openTruncate(file) == <<Garbled(<<>>, 0)>>

writeFromStart(file, content) ==
  IF FileLength(file) <= TextLength(content)
  THEN <<content>>
  ELSE <<Garbled(<<content>>, FileLength(file))>>

---------------------------------------------------------------------------
(* The compare command: the record is loaded, its paths are resolved, each *)
(* result that has both images and succeeded in both phases is compared    *)
(* again, and the record is saved to the same path.                        *)

\* the time value of new Date(text) for a text that is no date (Invalid Date)
InvalidDate == 0

\* if (result.beforePath && result.afterPath && result.beforeSuccess && result.afterSuccess)
compareGuard(result) ==
  /\ result.beforePath # NoPath
  /\ result.afterPath # NoPath
  /\ result.beforeSuccess = <<TRUE>>
  /\ result.afterSuccess = <<TRUE>>

\* what reading and decoding the image at p gives; a file that is not there is unreadable
ReadOf(reads, p) == IF p \in DOMAIN reads THEN reads[p] ELSE <<>>

afterFailedComparison_Cleared(result) == [result EXCEPT !.comparison = <<>>]

\* catch (error) { console.warn(...) }: the result is left as it was
afterFailedComparison(result) == result

\* the loop over resolvedDataFile.results, from index i on.  The value is
\* [results, updated, failed, wrote]: updated and failed are the indexes of the
\* results whose comparison returned and threw.
RECURSIVE compareResults(_, _, _, _, _)
compareResults(i, results, comparisonOptions, reads, pixelmatchOut) ==
  IF i > Len(results)
  THEN [results |-> <<>>, updated |-> <<>>, failed |-> <<>>, wrote |-> {}]
  ELSE LET result == results[i]
           r == compareImages(ReadOf(reads, result.beforePath), ReadOf(reads, result.afterPath),
                              pixelmatchOut, result.beforePath, comparisonOptions)
           rest == compareResults(i + 1, results, comparisonOptions, reads, pixelmatchOut)
       IN IF ~compareGuard(result)
          THEN [rest EXCEPT !.results = <<result>> \o @]
          ELSE IF r.threw
          THEN [rest EXCEPT !.results = <<afterFailedComparison(result)>> \o @,
                            !.failed = <<i>> \o @]
          ELSE [results |-> <<[result EXCEPT !.comparison = r.result]>> \o rest.results,
                updated |-> <<i>> \o rest.updated,
                failed |-> rest.failed,
                wrote |-> r.wrote \cup rest.wrote]

\* new Date(text): the time of an ISO text, InvalidDate for any other text
DateOf(text) == IF "iso" \in DOMAIN text THEN text.iso ELSE InvalidDate

\* result.timestamp ? new Date(result.timestamp)
\*   : result.beforeTimestamp ? new Date(result.beforeTimestamp) : new Date()
passTimestamp(result, now) ==
  IF result.timestamp # <<>> THEN DateOf(result.timestamp[1])
  ELSE IF result.beforeTimestamp # <<>> THEN DateOf(result.beforeTimestamp[1])
  ELSE now

\* result.error || result.beforeError || result.afterError
passError(result) ==
  IF result.error # NoError THEN result.error
  ELSE IF result.beforeError # NoError THEN result.beforeError
  ELSE result.afterError

passReportData_Recount(dataFile) ==
  LET md == dataFile.metadata[1]
      compared == {i \in 1..Len(dataFile.results) : dataFile.results[i].comparison # <<>>}
  IN [results |-> [i \in 1..Len(dataFile.results) |->
                     LET result == dataFile.results[i]
                     IN [url |-> result.url,
                         singlePath |-> NoPath,
                         beforePath |-> result.beforePath,
                         afterPath |-> result.afterPath,
                         error |-> passError(result),
                         timestamp |-> passTimestamp(result, md.generatedAt + 1),
                         comparison |-> result.comparison]],
      mode |-> md.mode,
      generatedAt |-> md.generatedAt,
      totalUrls |-> md.totalUrls,
      successCount |-> Cardinality(compared),
      errorCount |-> Len(dataFile.results) - Cardinality(compared)]

\* reportData as the compare command builds it from the resolved data file; the
\* clock reads a time after the record's generatedAt
passReportData(dataFile) ==
  LET md == dataFile.metadata[1]
  IN [results |-> [i \in 1..Len(dataFile.results) |->
                     LET result == dataFile.results[i]
                     IN [url |-> result.url,
                         singlePath |-> NoPath,
                         beforePath |-> result.beforePath,
                         afterPath |-> result.afterPath,
                         error |-> passError(result),
                         timestamp |-> passTimestamp(result, md.generatedAt + 1),
                         comparison |-> result.comparison]],
      mode |-> md.mode,
      generatedAt |-> md.generatedAt,
      totalUrls |-> md.totalUrls,
      successCount |-> md.successCount,
      errorCount |-> md.errorCount]

\* saveDataFile throws before it writes: toISOString of an Invalid Date (RangeError),
\* called for a result that has a path
saveThrows(reportData) ==
  \E i \in 1..Len(reportData.results) :
    LET result == reportData.results[i]
    IN /\ result.timestamp = InvalidDate
       /\ result.singlePath # NoPath \/ result.beforePath # NoPath \/ result.afterPath # NoPath

\* the text the compare command saves
passContent(dataFile, dataFilePath) ==
  LET md == dataFile.metadata[1]
  IN saveDataFile(passReportData(dataFile), dataFilePath, md.options,
                  md.beforePhase, md.afterPhase)

\* the greatest number of results of the record the compare command is run on
MaxPassResults == 2

\* --skip-diff-images given or not; the thresholds are the defaults of the command
PassOptions ==
  {[threshold |-> Num(1, 10), minChangeThreshold |-> Num(5, 10),
    generateDiffImage |-> g, ignoreAntialiasing |-> FALSE] : g \in BOOLEAN}

\* The records the command is run on: what a capture saved to one of paths, in mode
\* single or with --before-after.  Every before capture succeeded; the after
\* captures and what the capture's own comparison read (one of reads) vary.
PassCaptures(paths, reads) ==
  UNION {
    {singleCapture(urls, [i \in 1..n |-> TRUE], path) :
       urls \in [1..n -> Urls], path \in paths}
    \cup
    {beforeAfterCapture(urls, [i \in 1..n |-> TRUE], c[1], c[2], c[3], path) :
       urls \in [1..n -> Urls], c \in [1..n -> BOOLEAN] \X reads \X (0..1), path \in paths}
    : n \in 0..MaxPassResults}

\* the file a capture leaves
CaptureFile(capture) ==
  writeFile(<<>>, saveDataFile(capture.reportData, capture.dataFilePath, capture.options,
                               capture.beforePhase, capture.afterPhase))

\* the diff images a capture leaves
CaptureDiffFiles(capture) ==
  {capture.reportData.results[i].comparison[1].diffImagePath :
     i \in {k \in 1..Len(capture.reportData.results) :
              /\ capture.reportData.results[k].comparison # <<>>
              /\ capture.reportData.results[k].comparison[1].diffImagePath # NoPath}}

\* an invocation about to load the record
PassStart(comparisonOptions, reads, pixelmatchOut) ==
  [pc |-> "load", comparisonOptions |-> comparisonOptions, reads |-> reads,
   pixelmatchOut |-> pixelmatchOut, dataFile |-> <<>>, updated |-> <<>>, failed |-> <<>>,
   content |-> <<>>, status |-> <<>>, finished |-> 0]

InitPass ==
  /\ pc = "compare command"
  /\ IdleShot
  /\ IdleClassify
  /\ IdleCompare
  /\ IdleMerge
  /\ loop = <<>>
  /\ browser = <<>>
  /\ storeIn \in PassCaptures(DataFilePaths, Reads)
  /\ recordFile = CaptureFile(storeIn)
  /\ diffFiles = CaptureDiffFiles(storeIn)
  /\ loaded = <<>>
  /\ resolved = <<>>
  /\ pass \in [{"first"} -> {PassStart(o, r, d) : o \in PassOptions, r \in Reads, d \in 0..1}]

\* loadDataFile(resolve(dataFilePath)), the mode check and resolveImagePaths: the
\* command exits with status 1 when the load throws or the mode is not before-after
PassLoad(p) ==
  /\ pass[p].pc = "load"
  /\ LET r == loadDataFile(recordFile)
     IN IF ~r.ok \/ r.dataFile[1].metadata[1].mode # "before-after"
        THEN pass' = [pass EXCEPT ![p].pc = "exit", ![p].status = <<1>>]
        ELSE pass' = [pass EXCEPT
                        ![p].pc = "compare",
                        ![p].dataFile = <<resolveImagePaths(r.dataFile[1], storeIn.dataFilePath)>>]
  /\ UNCHANGED <<pc, loop, browser, shotVars, clsVars, cmpVars, mergeVars, storeVars, diffFiles>>

\* the comparison loop
PassCompare(p) ==
  /\ pass[p].pc = "compare"
  /\ LET r == compareResults(1, pass[p].dataFile[1].results, pass[p].comparisonOptions,
                             pass[p].reads, pass[p].pixelmatchOut)
     IN /\ pass' = [pass EXCEPT
                      ![p].pc = "save",
                      ![p].dataFile = <<[pass[p].dataFile[1] EXCEPT !.results = r.results]>>,
                      ![p].updated = r.updated,
                      ![p].failed = r.failed]
        /\ diffFiles' = diffFiles \cup r.wrote
  /\ UNCHANGED <<pc, loop, browser, shotVars, clsVars, cmpVars, mergeVars, storeVars>>

\* saveDataFile up to the opening of the file: the text is built (a throw is caught
\* by the command, which exits with status 1) and the file is opened for writing
PassOpen(p) ==
  /\ pass[p].pc = "save"
  /\ IF saveThrows(passReportData(pass[p].dataFile[1]))
     THEN /\ pass' = [pass EXCEPT ![p].pc = "exit", ![p].status = <<1>>]
          /\ recordFile' = recordFile
     ELSE /\ pass' = [pass EXCEPT
                        ![p].pc = "write",
                        ![p].content = <<passContent(pass[p].dataFile[1], storeIn.dataFilePath)>>]
          /\ recordFile' = openTruncate(recordFile)
  /\ UNCHANGED <<pc, loop, browser, shotVars, clsVars, cmpVars, mergeVars, storeIn, loaded,
                 resolved, diffFiles>>

\* the text is written and the command ends
PassWrite(p) ==
  /\ pass[p].pc = "write"
  /\ recordFile' = writeFromStart(recordFile, pass[p].content[1])
  /\ pass' = [pass EXCEPT
                ![p].pc = "done",
                ![p].status = <<0>>,
                ![p].finished = Cardinality({q \in DOMAIN pass : pass[q].pc = "done"}) + 1]
  /\ UNCHANGED <<pc, loop, browser, shotVars, clsVars, cmpVars, mergeVars, storeIn, loaded,
                 resolved, diffFiles>>

NextPass ==
  \E p \in DOMAIN pass : PassLoad(p) \/ PassCompare(p) \/ PassOpen(p) \/ PassWrite(p)

SpecPass == InitPass /\ [][NextPass]_vars

---------------------------------------------------------------------------
(* The compare command: what the claims speak of *)

\* the text of the record before the command ran
InitialText == CaptureFile(storeIn)[1]

\* a before-after text with the comparison blocks taken out
WithoutComparisons(content) ==
  [content EXCEPT !.results = [i \in 1..Len(content.results) |->
                                 [content.results[i] EXCEPT !.comparison = <<>>]]]

\* C22: a pass of the compare command that ends well leaves in the file the record it
\* found with nothing but comparison blocks changed: the metadata (mode, counts,
\* options, phase timings) and the number, order, urls, paths, timestamps and success
\* flags of the results are those of the file before; on a record of mode single the
\* pass exits with status 1 and the file is never written.
C22_PassChangesOnlyComparisons ==
  \A p \in DOMAIN pass :
    /\ pass[p].pc = "done" =>
         /\ recordFile # <<>>
         /\ recordFile[1].shape = "before-after"
         /\ recordFile[1].metadata = InitialText.metadata
         /\ Len(recordFile[1].results) = Len(InitialText.results)
         /\ \A i \in 1..Len(InitialText.results) :
              /\ recordFile[1].results[i].url = InitialText.results[i].url
              /\ recordFile[1].results[i].beforePath = InitialText.results[i].beforePath
              /\ recordFile[1].results[i].afterPath = InitialText.results[i].afterPath
         /\ WithoutComparisons(recordFile[1]) = WithoutComparisons(InitialText)
    /\ InitialText.metadata.mode = "single" =>
         /\ pass[p].pc \in {"load", "exit"}
         /\ pass[p].pc = "exit" => pass[p].status = <<1>>
         /\ recordFile = <<InitialText>>

\* a pass over a record of two results with phase timings has ended and the file
\* differs from the one it found
C22_Witness ==
  /\ pass # <<>>
  /\ DOMAIN pass = {"first"}
  /\ pass["first"].pc = "done"
  /\ Len(InitialText.results) = 2
  /\ InitialText.metadata.phases # <<>>
  /\ recordFile # <<InitialText>>
  /\ pass["first"].updated = <<1, 2>>

\* a pass over a record of mode single has exited
C22_SingleModeExit ==
  /\ pass # <<>>
  /\ DOMAIN pass = {"first"}
  /\ pass["first"].pc = "exit"
  /\ InitialText.metadata.mode = "single"
  /\ Len(InitialText.results) = 2

---------------------------------------------------------------------------
(* Two invocations of the compare command on one record file.  Nothing     *)
(* orders them: each reads the file once, when it loads, and touches it    *)
(* twice, when it opens it and when it writes.                             *)

Passes == {"first", "second"}

\* every after image read as 1x1, or the after image of the first URL unreadable
ConcurrentReads ==
  {f \in Reads :
     /\ \A u \in Urls : f[ScreenshotPath(OutputDir, u, "after")] # <<WideImage>>
     /\ f[ScreenshotPath(OutputDir, "https://staging.example.com/wp-admin", "after")]
          = <<SmallImage>>}

InitPasses ==
  /\ pc = "compare command"
  /\ IdleShot
  /\ IdleClassify
  /\ IdleCompare
  /\ IdleMerge
  /\ loop = <<>>
  /\ browser = <<>>
  /\ storeIn \in PassCaptures({<<<<"/">>, <<"out">>, <<"Report-data", ".jsonc">>>>},
                              ConcurrentReads)
  /\ recordFile = CaptureFile(storeIn)
  /\ diffFiles = CaptureDiffFiles(storeIn)
  /\ loaded = <<>>
  /\ resolved = <<>>
  /\ pass \in [Passes -> {PassStart(o, r, d) :
                            o \in PassOptions, r \in ConcurrentReads, d \in 0..1}]

NextPasses ==
  \E p \in Passes : PassLoad(p) \/ PassCompare(p) \/ PassOpen(p) \/ PassWrite(p)

SpecPasses == InitPasses /\ [][NextPasses]_vars

\* both invocations have ended
AllFinished == \A p \in DOMAIN pass : pass[p].pc \in {"done", "exit"}

\* the invocations that saved
Writers == {p \in DOMAIN pass : pass[p].pc = "done"}

\* the one whose save ended last
LastWriter == CHOOSE p \in Writers : \A q \in Writers : pass[q].finished <= pass[p].finished

\* C23: once two concurrent passes have ended, the file holds exactly the text saved
\* by the pass whose save ended last.
C23_LastWriterWins ==
  (pass # <<>> /\ AllFinished /\ Writers # {}) =>
    recordFile = <<pass[LastWriter].content[1]>>

---------------------------------------------------------------------------
(* A pass of the compare command in which comparisons fail *)

\* the record as the pass found it: loaded from the text before and its paths resolved
Found ==
  resolveImagePaths(loadDataFile(<<InitialText>>).dataFile[1], storeIn.dataFilePath)

\* the comparison of result throws for invocation p
ComparisonThrows(p, result) ==
  compareImages(ReadOf(pass[p].reads, result.beforePath),
                ReadOf(pass[p].reads, result.afterPath),
                pass[p].pixelmatchOut, result.beforePath,
                pass[p].comparisonOptions).threw

Indexes(seq) == {seq[k] : k \in 1..Len(seq)}

\* C26: in a pass of the compare command a comparison that throws touches its result
\* only: the result keeps the comparison block it had, is not among the updated
\* results, every other result that qualifies gets its new verdict, the number of
\* updated results is the number of comparisons that returned, and the pass goes on
\* to save the record (it never exits after the loop), each failed result having in
\* the file the block it had before.
C26_FailedComparisonKeepsBlock ==
  \A p \in DOMAIN pass :
    /\ pass[p].pc = "exit" => pass[p].failed = <<>> /\ pass[p].dataFile = <<>>
    /\ pass[p].pc \in {"save", "write", "done"} =>
         LET found == Found.results
             initial == InitialText.results
             now == pass[p].dataFile[1].results
             threw == {i \in 1..Len(found) :
                         compareGuard(found[i]) /\ ComparisonThrows(p, found[i])}
             returned == {i \in 1..Len(found) :
                            compareGuard(found[i]) /\ ~ComparisonThrows(p, found[i])}
         IN /\ Len(now) = Len(found)
            /\ \A i \in threw :
                 /\ i \in Indexes(pass[p].failed)
                 /\ i \notin Indexes(pass[p].updated)
                 /\ now[i] = found[i]
                 /\ pass[p].pc = "done" =>
                      recordFile[1].results[i].comparison = initial[i].comparison
            /\ \A i \in returned :
                 /\ i \in Indexes(pass[p].updated)
                 /\ now[i].comparison # <<>>
            /\ Len(pass[p].updated) = Cardinality(returned)

\* a pass over two results has saved: the comparison of the first threw and the result
\* has in the file the block the capture gave it, the second was updated
C26_Witness ==
  /\ pass # <<>>
  /\ DOMAIN pass = {"first"}
  /\ pass["first"].pc = "done"
  /\ pass["first"].failed = <<1>>
  /\ pass["first"].updated = <<2>>
  /\ InitialText.results[1].comparison # <<>>
  /\ recordFile[1].results[1].comparison = InitialText.results[1].comparison
  /\ recordFile[1].results[2].comparison # <<>>

---------------------------------------------------------------------------
(* The loops that await compareImages: for (const pair of imagePairs) in   *)
(* batchCompare and for (const beforeResult of beforeResults) in merge.    *)
(* compareImages is asynchronous: a call is in progress from the call to   *)
(* the moment its promise settles (it returns or throws).                  *)

MaxLoopPairs == 3

awaitCall_NoAwait == "top"

\* `await imageComparator.compareImages(...)`: the loop is suspended until the call settles
awaitCall == "awaiting"

\* One input per turn of the loop: whether the turn calls compareImages (always in
\* batchCompare; in merge when both paths are there and there is no error) and
\* whether the call throws.
LoopInputs(kind) ==
  UNION {{t \in [1..n -> [compare : BOOLEAN, throws : BOOLEAN]] :
            \A i \in 1..n : kind = "batchCompare" => t[i].compare}
           : n \in 0..MaxLoopPairs}

InitLoop ==
  /\ pc = "loop"
  /\ IdleShot
  /\ IdleClassify
  /\ IdleCompare
  /\ IdleMerge
  /\ IdleStore
  /\ diffFiles = {}
  /\ pass = <<>>
  /\ browser = <<>>
  /\ \E kind \in {"batchCompare", "merge"} : \E turns \in LoopInputs(kind) :
       loop = [kind |-> kind, turns |-> turns, next |-> 1, position |-> "top",
               running |-> {}, events |-> <<>>, results |-> <<>>]

\* a turn of merge whose result does not qualify: the result is pushed as it is
LoopSkip ==
  /\ loop # <<>>
  /\ loop.position = "top"
  /\ loop.next <= Len(loop.turns)
  /\ ~loop.turns[loop.next].compare
  /\ loop' = [loop EXCEPT !.next = @ + 1,
                          !.results = Append(@, [index |-> loop.next, verdict |-> "none"])]
  /\ UNCHANGED <<pc, pass, browser, shotVars, clsVars, cmpVars, mergeVars, storeVars, diffFiles>>

\* a turn calls compareImages and awaits it
LoopCall ==
  /\ loop # <<>>
  /\ loop.position = "top"
  /\ loop.next <= Len(loop.turns)
  /\ loop.turns[loop.next].compare
  /\ loop' = [loop EXCEPT !.next = @ + 1,
                          !.position = awaitCall,
                          !.running = @ \cup {loop.next},
                          !.events = Append(@, [type |-> "call", index |-> loop.next])]
  /\ UNCHANGED <<pc, pass, browser, shotVars, clsVars, cmpVars, mergeVars, storeVars, diffFiles>>

\* A call in progress settles and the loop goes on after its await: a verdict is
\* pushed, or, the call having thrown, the default result (batchCompare) or the
\* result without a comparison (merge).
LoopSettle ==
  /\ loop # <<>>
  /\ \E i \in loop.running :
       loop' = [loop EXCEPT
                  !.position = "top",
                  !.running = @ \ {i},
                  !.events = Append(@, [type |-> IF loop.turns[i].throws THEN "threw"
                                                 ELSE "returned",
                                        index |-> i]),
                  !.results = Append(@, [index |-> i,
                                         verdict |-> IF ~loop.turns[i].throws THEN "verdict"
                                                     ELSE IF loop.kind = "batchCompare"
                                                     THEN "default" ELSE "none"])]
  /\ UNCHANGED <<pc, pass, browser, shotVars, clsVars, cmpVars, mergeVars, storeVars, diffFiles>>

\* return results / return merged
LoopReturn ==
  /\ loop # <<>>
  /\ loop.position = "top"
  /\ loop.next > Len(loop.turns)
  /\ loop' = [loop EXCEPT !.position = "returned"]
  /\ UNCHANGED <<pc, pass, browser, shotVars, clsVars, cmpVars, mergeVars, storeVars, diffFiles>>

NextLoop == LoopSkip \/ LoopCall \/ LoopSettle \/ LoopReturn

SpecLoop == InitLoop /\ [][NextLoop]_vars

\* C24: in batchCompare and in the merge loop at most one call of compareImages is in
\* progress at any time, a call is made only after every earlier call has returned
\* or thrown, and the results are pushed in the order of the input, one per turn.
C24_OneComparisonAtATime ==
  loop # <<>> =>
    /\ Cardinality(loop.running) <= 1
    /\ \A e \in 1..Len(loop.events) :
         loop.events[e].type = "call" =>
           \A d \in 1..(e - 1) :
             loop.events[d].type = "call" =>
               /\ loop.events[d].index < loop.events[e].index
               /\ \E c \in (d + 1)..(e - 1) :
                    /\ loop.events[c].type \in {"returned", "threw"}
                    /\ loop.events[c].index = loop.events[d].index
    /\ \A k \in 1..Len(loop.results) : loop.results[k].index = k
    /\ loop.position = "returned" =>
         /\ Len(loop.results) = Len(loop.turns)
         /\ loop.running = {}

\* a loop over three pairs has returned: the three were compared, the second threw
C24_Witness ==
  /\ loop # <<>>
  /\ loop.position = "returned"
  /\ Len(loop.turns) = 3
  /\ Len(loop.events) = 6
  /\ loop.events[3] = [type |-> "call", index |-> 2]
  /\ loop.events[4] = [type |-> "threw", index |-> 2]
  /\ loop.events[5] = [type |-> "call", index |-> 3]

---------------------------------------------------------------------------
(* Screenshotter: initialize, one call of takeScreenshots over a list of   *)
(* URLs, close.  browser is [launched, everLaunched, pages, opened]:       *)
(* launched tells whether this.browser is set, pages are the pages open,   *)
(* opened counts the pages newPage has returned.                           *)

MaxShotUrls == 2

NotInitialized == "Browser not initialized"

NewPageError == "browser.newPage: Target page, context or browser has been closed"

ViewportError == "page.setViewportSize: Target closed"

ClosePageError == "page.close: Target closed"

errorResult_WithPath(url, mode, message, time) ==
  ScreenshotResult(url, mode, ScreenshotPath(OutputDir, url, mode), message, time)

\* const errorResult = { url, error: error.message, timestamp: new Date() }
errorResult(url, mode, message, time) == ScreenshotResult(url, mode, NoPath, message, time)

closePage_OnReturnOnly(pages, page, threw) == IF threw THEN pages ELSE pages \ {page}

\* finally { await page.close(); }: whether the try block returned or threw
closePage(pages, page, threw) == pages \ {page}

\* the url of the turn of the loop that is running
CurrentUrl == shotIn.urls[Len(shotOut) + 1]

InitShots ==
  /\ pc = "idle"
  /\ IdleClassify
  /\ IdleCompare
  /\ IdleMerge
  /\ IdleStore
  /\ diffFiles = {}
  /\ pass = <<>>
  /\ loop = <<>>
  /\ browser = [launched |-> FALSE, everLaunched |-> FALSE, pages |-> {}, opened |-> 0]
  /\ shotIn \in [urls : UNION {[1..n -> ShotUrls] : n \in 0..MaxShotUrls},
                 mode : {"single", "before", "after"},
                 options : [maxRetries : {<<1>>, <<2>>}]]
  /\ attempt = 0
  /\ lastError = ""
  /\ attempts = <<>>
  /\ shotOut = <<>>

\* initialize(): chromium.launch() returns, or throws and this.browser stays null
Initialize ==
  /\ pc = "idle"
  /\ ~browser.launched
  /\ \E ok \in BOOLEAN :
       browser' = [browser EXCEPT !.launched = ok, !.everLaunched = @ \/ ok]
  /\ UNCHANGED <<pc, pass, loop, clsVars, cmpVars, mergeVars, storeVars, diffFiles, shotVars>>

\* close(): if (this.browser) { await this.browser.close(); this.browser = null; }
Close ==
  /\ pc \in {"idle", "returned"}
  /\ browser.launched
  /\ browser' = [browser EXCEPT !.launched = FALSE, !.pages = {}]
  /\ UNCHANGED <<pc, pass, loop, clsVars, cmpVars, mergeVars, storeVars, diffFiles, shotVars>>

\* takeScreenshots is called: it throws when this.browser is not set
TakeScreenshots ==
  /\ pc = "idle"
  /\ IF browser.launched
     THEN pc' = "url" /\ lastError' = lastError
     ELSE pc' = "threw" /\ lastError' = NotInitialized
  /\ UNCHANGED <<pass, loop, browser, clsVars, cmpVars, mergeVars, storeVars, diffFiles,
                 shotIn, attempt, attempts, shotOut>>

\* takeScreenshot is called for the next url: newPage returns a page, or throws and
\* takeScreenshots pushes an error result
OpenPage ==
  /\ pc = "url"
  /\ Len(shotOut) < Len(shotIn.urls)
  /\ \/ /\ browser' = [browser EXCEPT !.pages = @ \cup {browser.opened + 1},
                                      !.opened = @ + 1]
        /\ attempt' = 1
        /\ attempts' = <<>>
        /\ pc' = "viewport"
        /\ UNCHANGED shotOut
     \/ /\ shotOut' = Append(shotOut, errorResult(CurrentUrl, shotIn.mode, NewPageError,
                                                  Len(shotOut) + 1))
        /\ UNCHANGED <<pc, browser, attempt, attempts>>
  /\ UNCHANGED <<pass, loop, clsVars, cmpVars, mergeVars, storeVars, diffFiles, shotIn, lastError>>

\* await page.setViewportSize(...): returns or throws
SetViewport ==
  /\ pc = "viewport"
  /\ pc' \in {"goto", "finally: viewport threw"}
  /\ UNCHANGED <<pass, loop, browser, clsVars, cmpVars, mergeVars, storeVars, diffFiles, shotVars>>

\* one turn of the retry loop in which page.goto returns: break
ShotGotoSucceeds ==
  /\ pc = "goto"
  /\ attempt <= maxRetriesOf(shotIn.options)
  /\ attempts' = Append(attempts, "")
  /\ pc' = "navigated"
  /\ UNCHANGED <<pass, loop, browser, clsVars, cmpVars, mergeVars, storeVars, diffFiles,
                 shotIn, attempt, lastError, shotOut>>

\* one turn of the retry loop in which page.goto throws: retry after the delay, or throw
ShotGotoFails ==
  /\ pc = "goto"
  /\ attempt <= maxRetriesOf(shotIn.options)
  /\ \E message \in GotoErrors :
       /\ attempts' = Append(attempts, message)
       /\ lastError' = message
       /\ IF shouldRetry(message, attempt, maxRetriesOf(shotIn.options))
          THEN pc' = "goto" /\ attempt' = attempt + 1
          ELSE pc' = "finally: goto threw" /\ attempt' = attempt
  /\ UNCHANGED <<pass, loop, browser, clsVars, cmpVars, mergeVars, storeVars, diffFiles,
                 shotIn, shotOut>>

\* page.waitForTimeout and page.screenshot: the result is built, or one of them throws
ShotCapture ==
  /\ pc = "navigated"
  /\ pc' \in {"finally: return", "finally: screenshot threw"}
  /\ UNCHANGED <<pass, loop, browser, clsVars, cmpVars, mergeVars, storeVars, diffFiles, shotVars>>

\* finally { await page.close(); } and the end of the turn: takeScreenshot returns the
\* result or throws (what the try block threw, or what page.close throws), and
\* takeScreenshots pushes the result or an error result
ClosePage ==
  /\ pc \in {"finally: return", "finally: viewport threw", "finally: goto threw",
             "finally: screenshot threw"}
  /\ \E closeThrows \in BOOLEAN :
       LET message == IF closeThrows THEN ClosePageError
                      ELSE IF pc = "finally: viewport threw" THEN ViewportError
                      ELSE IF pc = "finally: goto threw" THEN lastError
                      ELSE IF pc = "finally: screenshot threw" THEN ScreenshotError
                      ELSE NoError
       IN /\ browser' = [browser EXCEPT
                           !.pages = closePage(@, browser.opened, pc # "finally: return")]
          /\ shotOut' = Append(shotOut,
                               IF message = NoError
                               THEN ScreenshotResult(CurrentUrl, shotIn.mode,
                                      ScreenshotPath(OutputDir, CurrentUrl, shotIn.mode),
                                      NoError, Len(shotOut) + 1)
                               ELSE errorResult(CurrentUrl, shotIn.mode, message,
                                                Len(shotOut) + 1))
  /\ pc' = "url"
  /\ UNCHANGED <<pass, loop, clsVars, cmpVars, mergeVars, storeVars, diffFiles, shotIn,
                 attempt, lastError, attempts>>

\* return results
ReturnResults ==
  /\ pc = "url"
  /\ Len(shotOut) = Len(shotIn.urls)
  /\ pc' = "returned"
  /\ UNCHANGED <<pass, loop, browser, clsVars, cmpVars, mergeVars, storeVars, diffFiles, shotVars>>

NextShots ==
  \/ Initialize
  \/ Close
  \/ TakeScreenshots
  \/ OpenPage
  \/ SetViewport
  \/ ShotGotoSucceeds
  \/ ShotGotoFails
  \/ ShotCapture
  \/ ClosePage
  \/ ReturnResults

SpecShots == InitShots /\ [][NextShots]_vars

---------------------------------------------------------------------------
(* Screenshotter: what the claims speak of *)

\* the path an outcome has for the mode of the call
PathOfMode(result, mode) ==
  IF mode = "single" THEN result.singlePath
  ELSE IF mode = "before" THEN result.beforePath
  ELSE result.afterPath

\* the outcome is one of url: a timestamp, and the path of the mode or an error
OutcomeOf(result, url, mode) ==
  /\ result.url = url
  /\ result.timestamp > 0
  /\ (PathOfMode(result, mode) # NoPath) # (result.error # NoError)
  /\ PathOfMode(result, mode) # NoPath =>
       PathOfMode(result, mode) = ScreenshotPath(OutputDir, url, mode)
  /\ \A m \in {"single", "before", "after"} \ {mode} : PathOfMode(result, m) = NoPath

\* C25: takeScreenshots returns one outcome per url, in the order of the urls; each
\* has its url, a timestamp and either the path of the requested mode or an error,
\* never both and never neither; while the call runs the outcomes pushed are those of
\* the first urls, whatever failed among them.
C25_OneOutcomePerUrl ==
  pc \notin {"idle", "threw"} =>
    /\ Len(shotOut) <= Len(shotIn.urls)
    /\ \A i \in 1..Len(shotOut) : OutcomeOf(shotOut[i], shotIn.urls[i], shotIn.mode)
    /\ pc = "returned" => Len(shotOut) = Len(shotIn.urls)
    /\ pc # "returned" =>
         \/ Len(shotOut) < Len(shotIn.urls)
         \/ pc = "url"

\* two urls: the capture of the first failed, the second was captured
C25_Witness ==
  /\ pc = "returned"
  /\ Len(shotOut) = 2
  /\ shotIn.mode = "before"
  /\ shotOut[1].error \in GotoErrors
  /\ shotOut[1].beforePath = NoPath
  /\ shotOut[2].error = NoError
  /\ shotOut[2].beforePath = ScreenshotPath(OutputDir, shotIn.urls[2], "before")

\* C30: a page is open only inside takeScreenshot, one at a time: between two urls,
\* and once takeScreenshots has returned or thrown, no page is open; takeScreenshots
\* runs only with this.browser set, and called without it (before initialize, after a
\* failed launch, after close) it throws 'Browser not initialized' and opens no page.
C30_NoPageLeft ==
  /\ Cardinality(browser.pages) <= 1
  /\ pc \in {"idle", "url", "returned", "threw"} => browser.pages = {}
  /\ pc \in {"viewport", "goto", "navigated", "finally: return", "finally: viewport threw",
             "finally: goto threw", "finally: screenshot threw"} =>
       browser.launched /\ browser.pages = {browser.opened}
  /\ pc = "url" => browser.launched
  /\ pc = "threw" =>
       /\ ~browser.launched
       /\ lastError = NotInitialized
       /\ browser.opened = 0
       /\ shotOut = <<>>
  /\ pc = "returned" => browser.opened <= Len(shotIn.urls)

\* takeScreenshots has returned after two urls: two pages were opened, the try block
\* of the first threw, and no page is open
C30_Witness ==
  /\ pc = "returned"
  /\ browser.launched
  /\ browser.opened = 2
  /\ browser.pages = {}
  /\ shotOut[1].error = ScreenshotError
  /\ shotOut[2].error = NoError

\* takeScreenshots was called after close and threw
C30_AfterClose ==
  /\ pc = "threw"
  /\ browser.everLaunched
  /\ shotIn.urls # <<>>

---------------------------------------------------------------------------
(* Merge: a comparison that throws *)

\* the comparison of pair i is attempted and throws: the pair qualifies and one of its
\* images cannot be read
MergeComparisonThrows(i) ==
  LET result == mergeResult(mergeIn.beforeResults[i], mergeIn.afterResults)
  IN /\ shouldCompare(result)
     /\ mergeIn.reads[result.beforePath] = <<>> \/ mergeIn.reads[result.afterPath] = <<>>

\* C27: a comparison that throws in merge aborts nothing: there is one merged result
\* per before outcome; the pair's result has no comparison and no error, so it is
\* counted among the successes; and every later pair that qualifies is still compared.
C27_MergeSurvivesFailedComparison ==
  pc = "merged" =>
    /\ Len(Merged) = Len(mergeIn.beforeResults)
    /\ \A i \in 1..Len(Merged) :
         MergeComparisonThrows(i) =>
           /\ Merged[i].comparison = <<>>
           /\ Merged[i].error = NoError
           /\ Merged[i].beforePath # NoPath
           /\ Merged[i].afterPath # NoPath
           /\ i \in CallIndexes
           /\ Count(Merged, FALSE) >= 1
           /\ \A j \in (i + 1)..Len(Merged) :
                shouldCompare(mergeResult(mergeIn.beforeResults[j], mergeIn.afterResults)) =>
                  /\ j \in CallIndexes
                  /\ ~MergeComparisonThrows(j) => Merged[j].comparison # <<>>

\* two pairs: the comparison of the first threw, the second was compared
C27_Witness ==
  /\ pc = "merged"
  /\ Len(Merged) = 2
  /\ MergeComparisonThrows(1)
  /\ Merged[1].error = NoError
  /\ Merged[1].comparison = <<>>
  /\ Merged[2].comparison # <<>>
  /\ Count(Merged, FALSE) = 2

---------------------------------------------------------------------------
(* The counts of a record written by a capture *)

\* the results of the run the record was written from
RunResults == storeIn.reportData.results

\* the entries of the written record whose success field is the text of b
Entries(b) ==
  {i \in 1..Len(recordFile[1].results) : recordFile[1].results[i].success = BoolText(<<b>>)}

\* C28: in the record a capture wrote, in mode single and in mode before-after,
\* successCount + errorCount = number of results = totalUrls; successCount is the
\* number of results without an error and errorCount the number of results with one.
C28_CountsMatchResults ==
  pc \in {"saved", "loaded", "resolved"} =>
    LET md == recordFile[1].metadata
        written == recordFile[1].results
    IN /\ md.mode \in {"single", "before-after"}
       /\ Len(written) = Len(RunResults)
       /\ md.totalUrls = Len(written)
       /\ md.successCount + md.errorCount = Len(written)
       /\ md.successCount = Count(RunResults, FALSE)
       /\ md.errorCount = Count(RunResults, TRUE)
       /\ md.successCount = Cardinality(Entries(TRUE))
       /\ md.errorCount = Cardinality(Entries(FALSE))

\* a before-after record of two URLs written: the before capture of one succeeded
\* and its after capture failed, the other was captured twice
C28_Witness ==
  /\ pc = "saved"
  /\ recordFile[1].metadata.mode = "before-after"
  /\ recordFile[1].metadata.totalUrls = 2
  /\ recordFile[1].metadata.successCount = 1
  /\ recordFile[1].metadata.errorCount = 1
  /\ \E i \in 1..2 : /\ RunResults[i].error # NoError
                     /\ RunResults[i].beforePath # NoPath
                     /\ RunResults[i].afterPath = NoPath

---------------------------------------------------------------------------
(* Screenshotter: the files of one phase *)

\* the outcomes of the call so far that have a screenshot
Captured == {i \in 1..Len(shotOut) : PathOfMode(shotOut[i], shotIn.mode) # NoPath}

\* C29: in one call of takeScreenshots two different urls are never captured to the
\* same file path, so no screenshot of the phase is overwritten by that of another url.
C29_DistinctUrlsDistinctFiles ==
  \A i \in Captured : \A j \in Captured :
    shotOut[i].url # shotOut[j].url =>
      PathOfMode(shotOut[i], shotIn.mode) # PathOfMode(shotOut[j], shotIn.mode)

\* two different urls were captured in one call
C29_TwoUrlsCaptured ==
  /\ pc = "returned"
  /\ Captured = {1, 2}
  /\ shotOut[1].url # shotOut[2].url

===========================================================================
